---------------------------- MODULE Spec2Model ----------------------------
(***************************************************************************)
(* Model of the doomscroll backend: the Postgres store (schema.sql), the   *)
(* Fastify route handlers (posts, media, webhooks) and the Cloudflare      *)
(* Stream client.  Each HTTP handler is a small process whose steps are    *)
(* the awaits of the handler; each SQL function is a transaction whose     *)
(* steps are its statements.                                               *)
(***************************************************************************)
EXTENDS Integers, Sequences, FiniteSets, TLC

\* ------------------------------------------------------------------ bounds
MaxTx == 2           \* SQL function calls in flight at once
MaxToggles == 3      \* toggle, share and comment calls started in one behaviour

MaxRequests == 2     \* HTTP requests received in one behaviour
MAX_VIDEO_DURATION_SECONDS == 180

Users == {"A", "B"}
UIDs == {"v1"}                        \* uids the provider can assign
DurationsTenths == {1804, 1805}  \* durations a video can have, in 1/10 s
NULL == -1                            \* SQL null of an integer column
NoUid == "none"
Kinds == {"like", "save"}
PostIds == {1}        \* ids of the rows of posts in the toggle specification
MissingPost == 0     \* an id that is no row of posts
NoOne == "none"
NoCursor == <<>>     \* no cursor parameter / nextCursor = null

MaxRows == 3         \* rows of the listed table
Limits == {1, 2}     \* page sizes asked for (the routes accept 1..30, 1..50)
NoLimit == -1        \* no limit parameter
OtherLimits == {NoLimit, 0, 31, 51}  \* absent and out-of-range limit parameters
DEFAULT_FEED_LIMIT == 10
MAX_FEED_LIMIT == 30
DEFAULT_COMMENTS_LIMIT == 20
MAX_COMMENTS_LIMIT == 50
CreatedAts == {1000, 1500, 2000}   \* created_at values, in microseconds
Scopes == {"a", "b"}               \* topics of posts / posts of comments
MICROS_PER_MILLI == 1000

\* ------------------------------------------------------------------- state
VARIABLES
  posts,           \* public.posts: set of rows
  like_count,      \* posts.like_count, by post id
  bookmark_count,  \* posts.bookmark_count, by post id
  post_likes,      \* public.post_likes: set of <<post_id, user_id>>
  post_saves,      \* public.post_saves: set of <<post_id, user_id>>
  tx,              \* SQL function calls in flight, by connection
  started,         \* number of toggle, share and comment calls started
  lastDone,        \* history: the toggle that committed last
  lastIntent,      \* history: per key, the intent of the toggle that committed
                   \* last and whether it overlapped no other toggle of the key
  onRun            \* history: net count gained by a user's commits since
                   \* that user's last committed 'off' (per kind and post)

likeVars == <<like_count, bookmark_count, post_likes, post_saves,
              tx, started, lastDone, lastIntent, onRun>>

toggleVars == <<posts, likeVars>>

VARIABLES
  video_uploads,   \* public.video_uploads: uid -> row or NoRow
  cf,              \* the videos of the Cloudflare Stream account, by uid
  reqs,            \* HTTP requests in flight, by slot
  issued,          \* number of requests received
  grantedTo        \* history: the user whose upload grant created the row
                   \* of the uid

videoVars == <<video_uploads, cf, reqs, issued, grantedTo>>

VARIABLES
  listing,         \* the listing walked: "posts" (feed), "userPosts" or
                   \* "comments"
  table,           \* the rows of the listed table: id, created_at, scope
  scope,           \* the eq filter of the query: topic or post_id
  limit,           \* the limit parameter of the walk
  cursor,          \* the cursor parameter of the next call
  items,           \* the ids of the items returned so far, in order
  calls,           \* "walking" until a call returns nextCursor = null
                   \* ("done") or is answered 400 ("badQuery", "badCursor")
  given,           \* history: the cursor parameter of the first call
  queried,         \* history: the limit of each store query of the walk
  codec            \* a cursor under encodeCursor / decodeCursor

pageVars == <<listing, table, scope, limit, cursor, items, calls, given,
              queried, codec>>

VARIABLES
  view_count,      \* posts.view_count, by post id
  comment_count,   \* posts.comment_count, by post id
  share_count,     \* posts.share_count, by post id
  comments,        \* public.comments: number of rows, by post id
  calling,         \* share and comment function calls in flight, by connection
  sharesDone,      \* history: number of shares that succeeded, by post id
  raised           \* the error of the share or comment call that ended last

tallyVars == <<view_count, comment_count, share_count, comments, calling,
               sharesDone, raised>>

VARIABLES
  profiles,        \* public.profiles: the set of rows
  ensuring,        \* ensureProfile calls, by request
  play             \* one resolution of playback URLs: its inputs and its result

libVars == <<profiles, ensuring, play>>

vars == <<toggleVars, videoVars, pageVars, tallyVars, libVars>>

TxIds == 1..MaxTx

\* connections that call the share and comment functions
Callers == {1, 2}
ReqIds == {1, 2}      \* handlers that can be in flight at once

NoRow == [user_id |-> NoOne, status |-> "none", duration_seconds |-> NULL]

IdleCodec == [pc |-> "idle", source |-> NoCursor, token |-> NoCursor,
              result |-> NoCursor]

NoVideo == [stage |-> "none", duration |-> 0, deleted |-> FALSE]

\* A request: where its handler stands (pc), what it was sent (build, user,
\* uid), what it has read from the provider or the payload (dur, ready,
\* state), whether it has sent a remote DELETE and, once pc = "reply", the
\* answer it is about to send (code, err).
IdleReq ==
  [kind |-> "none", pc |-> "idle", build |-> "none", user |-> NoOne,
   uid |-> NoUid, dur |-> 0, ready |-> FALSE, state |-> "none",
   sentDelete |-> FALSE, code |-> 0, err |-> "none"]

PostRow(i) ==
  [id |-> i, author_id |-> "A", topic |-> "general", created_at |-> i,
   media_type |-> "image", cloudflare_uid |-> NoUid]

IdleTx ==
  [pc |-> "idle", kind |-> "none", post |-> MissingPost, user |-> NoOne,
   intent |-> FALSE, did_change |-> FALSE, conc |-> FALSE, stale |-> FALSE]

\* A share or comment call: its function, its post, and the counter of the
\* post as it was when the call began.
IdleCall == [fn |-> "none", post |-> MissingPost, seen |-> 0]

\* what increment_post_share returns: the new share_count, or nothing
Returned == {NULL} \cup (1..MaxToggles)

\* src/lib: no profile row, no ensureProfile call, no playback resolution
NoProfile == [id |-> NoOne, username |-> ""]

IdleEnsure == [pc |-> "idle", index |-> 0, inserts |-> 0, reads |-> 0,
               raced |-> FALSE, code |-> "none", result |-> NoProfile]

IdlePlay == [pc |-> "idle"]

InitLib ==
  /\ profiles = {}
  /\ ensuring = [r \in ReqIds |-> IdleEnsure]
  /\ play = IdlePlay

NoToggle ==
  [kind |-> "none", post |-> MissingPost, user |-> NoOne,
   intent |-> FALSE, before |-> 0, member |-> FALSE]

Keys == Kinds \X PostIds \X Users

\* -------------------------------------------------------- toggle relations
Rel(k) == IF k = "like" THEN post_likes ELSE post_saves
Count(k) == IF k = "like" THEN like_count ELSE bookmark_count

PostExists(p) == \E r \in posts : r.id = p

\* Call o is in flight on the pair (p, u) of relation k.
SameKey(o, k, p, u) ==
  /\ tx[o].pc # "idle"
  /\ tx[o].kind = k /\ tx[o].post = p /\ tx[o].user = u

\* A function call that changed the pair holds the row lock on it until it
\* commits (primary key (post_id, user_id)).
HoldsKey(t, k, p, u) ==
  /\ tx[t].pc = "count"
  /\ tx[t].did_change
  /\ tx[t].kind = k /\ tx[t].post = p /\ tx[t].user = u

\* Faulty variant: the insert never waits for another call (no unique index on the
\* pair).
InsertWaits_never(t, k, p, u) == FALSE

\* insert ... on conflict do nothing waits for an uncommitted insert or
\* delete of the same key by another call.
InsertWaits(t, k, p, u) ==
  \E o \in TxIds \ {t} : HoldsKey(o, k, p, u)

\* delete waits only for an uncommitted delete of a row it can see; an
\* uncommitted insert is invisible to it.
DeleteWaits(t, k, p, u) ==
  \E o \in TxIds \ {t} : HoldsKey(o, k, p, u) /\ ~tx[o].intent

\* found after the insert / delete statement
InsertFound(k, p, u) == <<p, u>> \notin Rel(k)

\* Faulty variant: did_change is set without looking at found.
DeleteFound_always(k, p, u) == TRUE

DeleteFound(k, p, u) == <<p, u>> \in Rel(k)

StmtFound(k, p, u, intent) ==
  IF intent THEN InsertFound(k, p, u) ELSE DeleteFound(k, p, u)

Greatest(a, b) == IF a >= b THEN a ELSE b

\* Faulty variant: the counter is adjusted whether or not the statement changed a row.
NewCount_unguarded(c, intent, did_change) ==
  IF intent THEN c + 1 ELSE Greatest(0, c - 1)

\* Faulty variant: an 'off' takes one from the counter, with neither the guard nor
\* the floor.
NewCount_unfloored(c, intent, did_change) == IF intent THEN c + 1 ELSE c - 1

\* if did_change then update posts set like_count = like_count +/- 1
NewCount(c, intent, did_change) ==
  IF ~did_change THEN c
  ELSE IF intent THEN c + 1 ELSE Greatest(0, c - 1)

\* POST /posts/:postId/likes and /saves: supabaseAdmin.rpc("toggle_post_*")
ToggleBegin(t, k, p, u, intent) ==
  /\ tx[t].pc = "idle"
  /\ \A o \in TxIds : o < t => tx[o].pc # "idle"   \* connections are alike
  /\ started < MaxToggles
  /\ started' = started + 1
  /\ tx' = [tx EXCEPT ![t] =
       [pc |-> "stmt", kind |-> k, post |-> p, user |-> u, intent |-> intent,
        did_change |-> FALSE,
        conc |-> \E o \in TxIds \ {t} : SameKey(o, k, p, u),
        stale |-> FALSE]]
  /\ UNCHANGED <<posts, like_count, bookmark_count, post_likes, post_saves,
                 lastDone, lastIntent, onRun, videoVars, pageVars, tallyVars, libVars>>

\* The insert violates the foreign key to posts: the function raises, the
\* call is rolled back and the route answers 500.
ToggleFkError(t) ==
  /\ tx[t].pc = "stmt"
  /\ tx[t].intent
  /\ ~PostExists(tx[t].post)
  /\ tx' = [tx EXCEPT ![t] = IdleTx]
  /\ UNCHANGED <<posts, like_count, bookmark_count, post_likes, post_saves,
                 started, lastDone, lastIntent, onRun, videoVars, pageVars, tallyVars, libVars>>

\* The first statement of toggle_post_like / toggle_post_save.
ToggleStmt(t) ==
  LET k == tx[t].kind
      p == tx[t].post
      u == tx[t].user
  IN
  /\ tx[t].pc = "stmt"
  /\ tx[t].intent => PostExists(p)
  /\ IF tx[t].intent THEN ~InsertWaits(t, k, p, u) ELSE ~DeleteWaits(t, k, p, u)
  /\ tx' = [tx EXCEPT ![t].pc = "count",
                      ![t].did_change = StmtFound(k, p, u, tx[t].intent)]
  /\ UNCHANGED <<posts, like_count, bookmark_count, post_likes, post_saves,
                 started, lastDone, lastIntent, onRun, videoVars, pageVars, tallyVars, libVars>>

\* The guarded counter update and the return of the function: the call
\* commits, its row change and counter change become visible together.
ToggleCommit(t) ==
  LET k == tx[t].kind
      p == tx[t].post
      u == tx[t].user
      on == tx[t].intent
      dc == tx[t].did_change
      newRel == IF ~dc THEN Rel(k)
                ELSE IF on THEN Rel(k) \cup {<<p, u>>} ELSE Rel(k) \ {<<p, u>>}
      old == IF p \in PostIds THEN Count(k)[p] ELSE 0
      new == NewCount(old, on, dc)
      newCnt == IF p \in PostIds /\ PostExists(p)
                THEN [Count(k) EXCEPT ![p] = new] ELSE Count(k)
  IN
  /\ tx[t].pc = "count"
  /\ IF k = "like"
     THEN /\ post_likes' = newRel
          /\ like_count' = newCnt
          /\ UNCHANGED <<post_saves, bookmark_count>>
     ELSE /\ post_saves' = newRel
          /\ bookmark_count' = newCnt
          /\ UNCHANGED <<post_likes, like_count>>
  /\ tx' = [o \in TxIds |->
              IF o = t THEN IdleTx
              ELSE IF SameKey(o, k, p, u) THEN [tx[o] EXCEPT !.stale = TRUE]
              ELSE tx[o]]
  /\ lastDone' = [kind |-> k, post |-> p, user |-> u,
                  intent |-> on, before |-> old,
                  member |-> <<p, u>> \in Rel(k)]
  /\ IF p \in PostIds
     THEN /\ lastIntent' = [lastIntent EXCEPT ![<<k, p, u>>] =
                              [intent |-> IF on THEN "on" ELSE "off",
                               isolated |-> ~tx[t].conc /\ ~tx[t].stale]]
          /\ onRun' = [onRun EXCEPT ![<<k, p, u>>] =
                         IF on THEN @ + (new - old) ELSE 0]
     ELSE UNCHANGED <<lastIntent, onRun>>
  /\ UNCHANGED <<posts, started, videoVars, pageVars, tallyVars, libVars>>

\* every table as the schema creates it, nothing in flight
InitStore ==
  /\ posts = {PostRow(i) : i \in PostIds}
  /\ like_count = [p \in PostIds |-> 0]
  /\ view_count = [p \in PostIds |-> 0]
  /\ comment_count = [p \in PostIds |-> 0]
  /\ share_count = [p \in PostIds |-> 0]
  /\ comments = [p \in PostIds |-> 0]
  /\ calling = [t \in Callers |-> IdleCall]
  /\ sharesDone = [p \in PostIds |-> 0]
  /\ raised = "none"
  /\ bookmark_count = [p \in PostIds |-> 0]
  /\ post_likes = {}
  /\ post_saves = {}
  /\ tx = [t \in TxIds |-> IdleTx]
  /\ started = 0
  /\ lastDone = NoToggle
  /\ lastIntent = [key \in Keys |-> [intent |-> "none", isolated |-> TRUE]]
  /\ onRun = [key \in Keys |-> 0]
  /\ video_uploads = [uid \in UIDs |-> NoRow]
  /\ cf = [uid \in UIDs |-> NoVideo]
  /\ reqs = [r \in ReqIds |-> IdleReq]
  /\ issued = 0
  /\ grantedTo = [uid \in UIDs |-> NoOne]
  /\ listing = "none"
  /\ table = {}
  /\ scope = "any"
  /\ limit = 1
  /\ cursor = NoCursor
  /\ items = <<>>
  /\ calls = "done"
  /\ given = NoCursor
  /\ queried = <<>>
  /\ codec = IdleCodec

InitToggle == InitStore /\ InitLib

NextToggle ==
  \E t \in TxIds :
    \/ \E k \in Kinds, p \in PostIds \cup {MissingPost}, u \in Users,
          intent \in BOOLEAN : ToggleBegin(t, k, p, u, intent)
    \/ ToggleFkError(t)
    \/ ToggleStmt(t)
    \/ ToggleCommit(t)

SpecToggle == InitToggle /\ [][NextToggle]_vars

\* --------------------------------------------------- shares and comments
\* the counter a function adds to
Tally(fn) == IF fn = "share" THEN share_count ELSE comment_count

\* POST /posts/:postId/share and POST /posts/:postId/comments:
\* supabaseAdmin.rpc("increment_post_share" / "create_post_comment")
CallBegin(t, fn, p) ==
  /\ calling[t].fn = "none"
  /\ \A o \in Callers : o < t => calling[o].fn # "none"   \* connections are alike
  /\ started < MaxToggles
  /\ started' = started + 1
  /\ calling' = [calling EXCEPT ![t] =
       [fn |-> fn, post |-> p,
        seen |-> IF p \in PostIds THEN Tally(fn)[p] ELSE 0]]
  /\ UNCHANGED <<view_count, comment_count, share_count, comments, sharesDone,
                 raised>>
  /\ UNCHANGED <<posts, like_count, bookmark_count, post_likes, post_saves, tx,
                 lastDone, lastIntent, onRun, videoVars, pageVars, libVars>>

\* Faulty variant: the new value is computed from the value read when the call
\* began.
Incremented_stale(current, seen) == seen + 1

\* set share_count = share_count + 1 / set comment_count = comment_count + 1:
\* the update statement locks the row and reads its latest version
Incremented(current, seen) == current + 1

\* increment_post_share: one update statement that returns the new value;
\* without a row of that id the function raises post_not_found
increment_post_share(t, ret) ==
  LET p == calling[t].post
      next == Incremented(share_count[p], calling[t].seen)
  IN
  /\ calling[t].fn = "share"
  /\ IF PostExists(p)
     THEN /\ share_count' = [share_count EXCEPT ![p] = next]
          /\ sharesDone' = [sharesDone EXCEPT ![p] = @ + 1]
          /\ ret = next
          /\ raised' = "none"
     ELSE /\ UNCHANGED <<share_count, sharesDone>>
          /\ ret = NULL
          /\ raised' = "post_not_found"
  /\ calling' = [calling EXCEPT ![t] = IdleCall]
  /\ UNCHANGED <<view_count, comment_count, comments>>
  /\ UNCHANGED <<posts, like_count, bookmark_count, post_likes, post_saves, tx,
                 started, lastDone, lastIntent, onRun, videoVars, pageVars, libVars>>

\* Faulty variant: the inserted row survives author_not_found.
Inserted_norollback(p, authorFound) == PostExists(p)

\* the comment row remains: the insert passed the foreign key to posts and the
\* function did not raise author_not_found
Inserted(p, authorFound) == PostExists(p) /\ authorFound

\* create_post_comment: the insert and the counter update commit together;
\* the insert raises on the foreign key to posts, and author_not_found (no
\* profile row of the author) rolls both back
create_post_comment(t, authorFound) ==
  LET p == calling[t].post IN
  /\ calling[t].fn = "comment"
  /\ IF Inserted(p, authorFound)
     THEN comments' = [comments EXCEPT ![p] = @ + 1]
     ELSE UNCHANGED comments
  /\ IF PostExists(p) /\ authorFound
     THEN /\ comment_count' = [comment_count EXCEPT ![p] =
                                 Incremented(@, calling[t].seen)]
          /\ raised' = "none"
     ELSE /\ UNCHANGED comment_count
          /\ raised' = IF PostExists(p) THEN "author_not_found"
                                        ELSE "foreign_key_violation"
  /\ calling' = [calling EXCEPT ![t] = IdleCall]
  /\ UNCHANGED <<view_count, share_count, sharesDone>>
  /\ UNCHANGED <<posts, like_count, bookmark_count, post_likes, post_saves, tx,
                 started, lastDone, lastIntent, onRun, videoVars, pageVars, libVars>>

NextTally ==
  \E t \in Callers :
    \/ \E fn \in {"share", "comment"}, p \in PostIds \cup {MissingPost} :
          CallBegin(t, fn, p)
    \/ \E ret \in Returned : increment_post_share(t, ret)
    \/ \E authorFound \in BOOLEAN : create_post_comment(t, authorFound)

\* share and comment calls alone
SpecTally == InitToggle /\ [][NextTally]_vars

\* toggles, shares and comments together
NextCounters == NextToggle \/ NextTally

SpecCounters == InitToggle /\ [][NextCounters]_vars

\* --------------------------------------------------- Cloudflare Stream API
\* Faulty variant: the fraction is cut off.
Round_floor(tenths) == tenths \div 10

\* Math.round of a non-negative duration given in tenths of a second
Round(tenths) == (tenths + 5) \div 10

\* GET and DELETE /stream/:uid answer 404 for a video the account does not
\* hold; cloudflareRequest throws on every response that is not ok.
CfHolds(uid) == cf[uid].stage # "none" /\ ~cf[uid].deleted

\* the account after a successful DELETE /stream/:uid
CfAfterDelete(uid) == [cf EXCEPT ![uid].deleted = TRUE]

\* direct_upload assigns a uid no video of the account has
FreshUid(uid) == cf[uid].stage = "none"

\* readyToStream of the provider's video object
CfReady(uid) == cf[uid].stage = "ready"

\* The client sends the bytes to the one-time upload URL.
CfUpload(uid, d) ==
  /\ cf[uid].stage = "pendingupload" /\ ~cf[uid].deleted
  /\ cf' = [cf EXCEPT ![uid].stage = "inprogress", ![uid].duration = d]
  /\ UNCHANGED <<video_uploads, reqs, issued, posts, grantedTo, likeVars, pageVars, tallyVars, libVars>>

\* The provider finishes processing the video.
CfFinish(uid, stage) ==
  /\ cf[uid].stage = "inprogress" /\ ~cf[uid].deleted
  /\ cf' = [cf EXCEPT ![uid].stage = stage]
  /\ UNCHANGED <<video_uploads, reqs, issued, posts, grantedTo, likeVars, pageVars, tallyVars, libVars>>

\* ------------------------------------------------------------ HTTP plumbing
\* the handler of the request on slot r returns an answer
Reply(r, code, err) ==
  IF code = 200
  THEN [reqs[r] EXCEPT !.pc = "reply", !.code = code, !.err = err]
  ELSE [reqs[r] EXCEPT !.pc = "reply", !.code = code, !.err = err,
                       !.dur = 0, !.ready = FALSE, !.state = "none"]

Finish(r, answer) == reqs' = [reqs EXCEPT ![r] = answer]

\* Faulty variant: the failure of the provider call is swallowed.
UpstreamFailure_swallowed(req, err) ==
  [req EXCEPT !.pc = "reply", !.code = 200, !.err = err,
              !.dur = 0, !.ready = FALSE, !.state = "none"]

\* cloudflareRequest throws (the response is not ok, or no success): the
\* handler is left and the request is answered 500
UpstreamFailure(req, err) ==
  [req EXCEPT !.pc = "reply", !.code = 500, !.err = err,
              !.dur = 0, !.ready = FALSE, !.state = "none"]

Goto(r, pc) == reqs' = [reqs EXCEPT ![r].pc = pc]

\* A request arrives on the first free slot.
Arrives(r) ==
  /\ issued < MaxRequests
  /\ issued' = issued + 1
  /\ reqs[r].pc = "idle"
  /\ \A o \in ReqIds : o < r => reqs[o].pc # "idle"   \* slots are alike

NewReq(kind, pc, build, user, uid) ==
  [IdleReq EXCEPT !.kind = kind, !.pc = pc, !.build = build, !.user = user,
                  !.uid = uid]

\* The answer is sent and the slot is free again.
Respond(r) ==
  /\ reqs[r].pc = "reply"
  /\ reqs' = [reqs EXCEPT ![r] = IdleReq]
  /\ UNCHANGED <<video_uploads, cf, issued, posts, grantedTo, likeVars, pageVars, tallyVars, libVars>>

\* requireAuth: a request without a valid bearer token is answered 401
RequireAuthReject(r, kind) ==
  /\ Arrives(r)
  /\ Finish(r, [NewReq(kind, "reply", "none", NoOne, NoUid)
                  EXCEPT !.code = 401, !.err = "unauthorized"])
  /\ UNCHANGED <<video_uploads, cf, posts, grantedTo, likeVars, pageVars, tallyVars, libVars>>

\* video.status?.state ?? (video.readyToStream ? "ready" : "processing")
DeriveState(state, ready) ==
  IF state # "none" THEN state ELSE IF ready THEN "ready" ELSE "processing"

\* Faulty variant: the duration is dropped.
StoredDuration_null(seconds) == NULL

\* durationSeconds > 0 ? durationSeconds : null
StoredDuration(seconds) == IF seconds > 0 THEN seconds ELSE NULL

\* Faulty variant: the policy check lets one second more through.
OverLimit_lax(seconds) == seconds > MAX_VIDEO_DURATION_SECONDS + 1

\* durationSeconds > MAX_VIDEO_DURATION_SECONDS
OverLimit(seconds) == seconds > MAX_VIDEO_DURATION_SECONDS

\* ------------------------------------------- POST /v1/media/video/direct-upload
\* body of POST /stream/direct_upload: {maxDurationSeconds, meta}
DirectUploadRequest(u) ==
  [maxDurationSeconds |-> MAX_VIDEO_DURATION_SECONDS, userId |-> u]

\* return { uid, uploadUrl, maxDurationSeconds }
GrantBody(req) ==
  [uid |-> req.uid, uploadUrl |-> req.uid,
   maxDurationSeconds |-> MAX_VIDEO_DURATION_SECONDS]

\* await createDirectVideoUpload(...)
UploadMint(r, u, build) ==
  /\ Arrives(r)
  /\ \/ \E uid \in UIDs :
          /\ FreshUid(uid)
          /\ cf' = [cf EXCEPT ![uid].stage = "pendingupload"]
          /\ Finish(r, NewReq("upload", "upsert", build, u, uid))
     \/ /\ Finish(r, UpstreamFailure(NewReq("upload", "reply", build, u, NoUid),
                                      "upstream"))
        /\ UNCHANGED cf
  /\ UNCHANGED <<video_uploads, posts, grantedTo, likeVars, pageVars, tallyVars, libVars>>

\* upsert({uid, user_id, status: "pending"}): other columns keep their value
UpsertPending(row, u) == [row EXCEPT !.user_id = u, !.status = "pending"]

\* await supabaseAdmin.from("video_uploads").upsert(...), then the answer.
\* Only the compiled route looks at the store's error.
UploadUpsert(r) ==
  /\ reqs[r].kind = "upload" /\ reqs[r].pc = "upsert"
  /\ \/ /\ video_uploads' = [video_uploads EXCEPT ![reqs[r].uid] =
                               UpsertPending(@, reqs[r].user)]
        /\ grantedTo' = [grantedTo EXCEPT ![reqs[r].uid] = reqs[r].user]
        /\ Finish(r, Reply(r, 200, "none"))
     \/ /\ UNCHANGED <<video_uploads, grantedTo>>
        /\ IF reqs[r].build = "js"
           THEN Finish(r, Reply(r, 500, "store"))
           ELSE Finish(r, Reply(r, 200, "none"))
  /\ UNCHANGED <<cf, issued, posts, likeVars, pageVars, tallyVars, libVars>>

\* ------------------------------------ GET /v1/media/video/:uid[/status]
\* verifyUploadOwnership(existingUpload, requestUserId)
verifyUploadOwnership(row, u) == row # NoRow /\ row.user_id = u

\* handleVideoRead: loadVideoUpload, then the existence and ownership checks
ReadLoad(r, u, uid) ==
  /\ Arrives(r)
  /\ LET row == video_uploads[uid]
         req == NewReq("read", "fetch", "js", u, uid)
     IN
     IF row = NoRow THEN
       Finish(r, [req EXCEPT !.pc = "reply", !.code = 404, !.err = "notfound"])
     ELSE IF ~verifyUploadOwnership(row, u) THEN
       Finish(r, [req EXCEPT !.pc = "reply", !.code = 403, !.err = "forbidden"])
     ELSE
       Finish(r, req)
  /\ UNCHANGED <<video_uploads, cf, posts, grantedTo, likeVars, pageVars, tallyVars, libVars>>

\* The status route of the TypeScript sources queries the provider at once.
StatusBegin(r, u, uid) ==
  /\ Arrives(r)
  /\ Finish(r, NewReq("read", "fetch", "ts", u, uid))
  /\ UNCHANGED <<video_uploads, cf, posts, grantedTo, likeVars, pageVars, tallyVars, libVars>>

\* await getCloudflareVideoDelivery(uid) / getCloudflareVideo(uid), then the
\* rounding and the policy check.  status.state is optional in the video
\* object.
ReadFetch(r, withState) ==
  /\ reqs[r].kind = "read" /\ reqs[r].pc = "fetch"
  /\ LET uid == reqs[r].uid
         seconds == Round(cf[uid].duration)
     IN
     \/ /\ CfHolds(uid)
        /\ reqs' = [reqs EXCEPT
             ![r].pc = IF OverLimit(seconds) THEN "delete" ELSE "persist",
             ![r].dur = seconds,
             ![r].ready = CfReady(uid),
             ![r].state = IF withState THEN cf[uid].stage ELSE "none"]
     \/ /\ ~CfHolds(uid)
        /\ withState
        /\ Finish(r, UpstreamFailure(reqs[r], "gone"))
     \/ /\ withState
        /\ Finish(r, UpstreamFailure(reqs[r], "upstream"))
  /\ UNCHANGED <<video_uploads, cf, issued, posts, grantedTo, likeVars, pageVars, tallyVars, libVars>>

\* await deleteCloudflareVideo(uid); reply.unprocessableEntity(...)
ReadDelete(r) ==
  /\ reqs[r].kind = "read" /\ reqs[r].pc = "delete"
  /\ LET uid == reqs[r].uid
         sent == [reqs[r] EXCEPT !.sentDelete = TRUE]
     IN
     \/ /\ CfHolds(uid)
        /\ cf' = CfAfterDelete(uid)
        /\ Finish(r, [sent EXCEPT !.pc = "reply", !.code = 422, !.err = "exceeds",
                               !.dur = 0, !.ready = FALSE, !.state = "none"])
     \/ /\ ~CfHolds(uid)
        /\ UNCHANGED cf
        /\ Finish(r, UpstreamFailure(sent, "gone"))
     \/ /\ UNCHANGED cf
        /\ Finish(r, UpstreamFailure(sent, "upstream"))
  /\ UNCHANGED <<video_uploads, issued, posts, grantedTo, likeVars, pageVars, tallyVars, libVars>>

\* return { uid, readyToStream, durationSeconds, state, ... }
StatusBody(req) ==
  [uid |-> req.uid, readyToStream |-> req.ready,
   durationSeconds |-> StoredDuration(req.dur),
   state |-> IF req.build = "js" THEN DeriveState(req.state, req.ready)
             ELSE req.state]

\* upsert({uid, user_id: authUser.id, status, duration_seconds, updated_at})
UpsertStatus(row, u, state, seconds) ==
  [user_id |-> u, status |-> state, duration_seconds |-> StoredDuration(seconds)]

\* persistVideoUploadStatus(...) / the upsert of the status route, then the
\* read model.  Only handleVideoRead looks at the store's error.
ReadPersist(r) ==
  /\ reqs[r].kind = "read" /\ reqs[r].pc = "persist"
  /\ LET uid == reqs[r].uid
         state == DeriveState(reqs[r].state, reqs[r].ready)
     IN
     \/ /\ video_uploads' = [video_uploads EXCEPT ![uid] =
                               UpsertStatus(@, reqs[r].user, state, reqs[r].dur)]
        /\ Finish(r, Reply(r, 200, "none"))
     \/ /\ UNCHANGED video_uploads
        /\ IF reqs[r].build = "js"
           THEN Finish(r, Reply(r, 500, "store"))
           ELSE Finish(r, Reply(r, 200, "none"))
  /\ UNCHANGED <<cf, issued, posts, grantedTo, likeVars, pageVars, tallyVars, libVars>>

\* ------------------------------------------ POST /v1/webhooks/cloudflare/stream
\* Faulty variant: the header is not compared.
verifyWebhookSecret_open(secretSet, headerMatches) == TRUE

\* verifyWebhookSecret(headerValue), with config.cloudflareWebhookSecret set
\* or not
verifyWebhookSecret(secretSet, headerMatches) == ~secretSet \/ headerMatches

\* The provider's notification about one of its videos arrives; the header
\* check, the parse, the rounding and the policy check.  status.state is
\* optional in the payload.
WebhookBegin(r, uid, secretSet, headerMatches, withState) ==
  /\ Arrives(r)
  /\ cf[uid].stage \in {"inprogress", "ready", "error"}
  /\ LET seconds == Round(cf[uid].duration)
         req == NewReq("webhook", "update", "ts", NoOne, uid)
     IN
     IF ~verifyWebhookSecret(secretSet, headerMatches) THEN
       Finish(r, [req EXCEPT !.pc = "reply", !.code = 401,
                             !.err = "unauthorized"])
     ELSE
       Finish(r, [req EXCEPT
                    !.pc = IF OverLimit(seconds) THEN "delete" ELSE "update",
                    !.dur = seconds,
                    !.ready = CfReady(uid),
                    !.state = IF withState THEN cf[uid].stage ELSE "none"])
  /\ UNCHANGED <<video_uploads, cf, posts, grantedTo, likeVars, pageVars, tallyVars, libVars>>

\* await deleteCloudflareVideo(body.uid): a throw leaves the handler
WebhookDelete(r) ==
  /\ reqs[r].kind = "webhook" /\ reqs[r].pc = "delete"
  /\ LET uid == reqs[r].uid
         sent == [reqs[r] EXCEPT !.sentDelete = TRUE]
     IN
     \/ /\ CfHolds(uid)
        /\ cf' = CfAfterDelete(uid)
        /\ Finish(r, [sent EXCEPT !.pc = "update"])
     \/ /\ ~CfHolds(uid)
        /\ UNCHANGED cf
        /\ Finish(r, UpstreamFailure(sent, "gone"))
     \/ /\ UNCHANGED cf
        /\ Finish(r, UpstreamFailure(sent, "upstream"))
  /\ UNCHANGED <<video_uploads, issued, posts, grantedTo, likeVars, pageVars, tallyVars, libVars>>

\* Faulty variant: the update leaves the duration as it is.
UpdateStatus_statusonly(row, state, seconds) ==
  IF row = NoRow THEN row ELSE [row EXCEPT !.status = state]

\* Faulty variant: the webhook upserts, as the poll does.
UpdateStatus_upsert(row, state, seconds) ==
  [user_id |-> NoOne, status |-> state,
   duration_seconds |-> StoredDuration(seconds)]

\* update({status, duration_seconds, updated_at}).eq("uid", body.uid)
UpdateStatus(row, state, seconds) ==
  IF row = NoRow THEN row
  ELSE [row EXCEPT !.status = state,
                   !.duration_seconds = StoredDuration(seconds)]

\* await supabaseAdmin.from("video_uploads").update(...); return { ok: true }
\* The store's error is not looked at.
WebhookUpdate(r) ==
  /\ reqs[r].kind = "webhook" /\ reqs[r].pc = "update"
  /\ LET uid == reqs[r].uid
         state == DeriveState(reqs[r].state, reqs[r].ready)
     IN
     \/ video_uploads' = [video_uploads EXCEPT ![uid] =
                            UpdateStatus(@, state, reqs[r].dur)]
     \/ UNCHANGED video_uploads
  /\ Finish(r, Reply(r, 200, "none"))
  /\ UNCHANGED <<cf, issued, posts, grantedTo, likeVars, pageVars, tallyVars, libVars>>

\* ------------------------------------------------- POST /v1/posts (video)
\* the select on video_uploads and the ownership check
PostLoad(r, u, uid) ==
  /\ Arrives(r)
  /\ LET row == video_uploads[uid]
         req == NewReq("post", "fetch", "ts", u, uid)
     IN
     IF row = NoRow \/ row.user_id # u THEN
       Finish(r, [req EXCEPT !.pc = "reply", !.code = 403, !.err = "forbidden"])
     ELSE
       Finish(r, req)
  /\ UNCHANGED <<video_uploads, cf, posts, grantedTo, likeVars, pageVars, tallyVars, libVars>>

\* await getCloudflareVideo(uid), the readiness check and the policy check
PostFetch(r) ==
  /\ reqs[r].kind = "post" /\ reqs[r].pc = "fetch"
  /\ LET uid == reqs[r].uid
         seconds == Round(cf[uid].duration)
     IN
     \/ /\ CfHolds(uid)
        /\ IF ~CfReady(uid) THEN
             Finish(r, Reply(r, 409, "processing"))
           ELSE IF OverLimit(seconds) THEN
             Finish(r, Reply(r, 422, "exceeds"))
           ELSE
             Goto(r, "insert")
     \/ /\ ~CfHolds(uid)
        /\ Finish(r, UpstreamFailure(reqs[r], "gone"))
     \/ /\ Finish(r, UpstreamFailure(reqs[r], "upstream"))
  /\ UNCHANGED <<video_uploads, cf, issued, posts, grantedTo, likeVars, pageVars, tallyVars, libVars>>

\* Faulty variant: no unique index on cloudflare_uid.
UidTaken_never(uid) == FALSE

\* posts_cloudflare_uid_uidx: unique (cloudflare_uid) where not null
UidTaken(uid) == \E row \in posts : row.cloudflare_uid = uid

\* insert into posts (...) and the answer
PostInsert(r) ==
  /\ reqs[r].kind = "post" /\ reqs[r].pc = "insert"
  /\ LET uid == reqs[r].uid
         id == Cardinality(posts) + 1
     IN
     \/ /\ ~UidTaken(uid)
        /\ posts' = posts \cup
             {[id |-> id, author_id |-> reqs[r].user, topic |-> "general",
               created_at |-> id, media_type |-> "video",
               cloudflare_uid |-> uid]}
        /\ Finish(r, Reply(r, 200, "none"))
     \/ /\ UNCHANGED posts
        /\ Finish(r, Reply(r, 500, IF UidTaken(uid) THEN "unique" ELSE "store"))
  /\ UNCHANGED <<video_uploads, cf, issued, grantedTo, likeVars, pageVars, tallyVars, libVars>>

\* ------------------------------------------------ the video specification
Builds == {"js", "ts"}   \* the compiled media routes and the TypeScript ones

\* The store and the provider's account are empty, or an upload grant for
\* the uid has already been given to a user.
Init ==
  /\ posts = {}
  /\ like_count = [p \in PostIds |-> 0]
  /\ view_count = [p \in PostIds |-> 0]
  /\ comment_count = [p \in PostIds |-> 0]
  /\ share_count = [p \in PostIds |-> 0]
  /\ comments = [p \in PostIds |-> 0]
  /\ calling = [t \in Callers |-> IdleCall]
  /\ sharesDone = [p \in PostIds |-> 0]
  /\ raised = "none"
  /\ InitLib
  /\ bookmark_count = [p \in PostIds |-> 0]
  /\ post_likes = {}
  /\ post_saves = {}
  /\ tx = [t \in TxIds |-> IdleTx]
  /\ started = 0
  /\ lastDone = NoToggle
  /\ lastIntent = [key \in Keys |-> [intent |-> "none", isolated |-> TRUE]]
  /\ onRun = [key \in Keys |-> 0]
  /\ \/ /\ video_uploads = [uid \in UIDs |-> NoRow]
        /\ cf = [uid \in UIDs |-> NoVideo]
        /\ grantedTo = [uid \in UIDs |-> NoOne]
     \/ \E u \in Users :
          /\ video_uploads = [uid \in UIDs |-> UpsertPending(NoRow, u)]
          /\ cf = [uid \in UIDs |-> [NoVideo EXCEPT !.stage = "pendingupload"]]
          /\ grantedTo = [uid \in UIDs |-> u]
  /\ reqs = [r \in ReqIds |-> IdleReq]
  /\ issued = 0
  /\ listing = "none"
  /\ table = {}
  /\ scope = "any"
  /\ limit = 1
  /\ cursor = NoCursor
  /\ items = <<>>
  /\ calls = "done"
  /\ given = NoCursor
  /\ queried = <<>>
  /\ codec = IdleCodec

Provider ==
  \E uid \in UIDs :
    \/ \E d \in DurationsTenths : CfUpload(uid, d)
    \/ \E stage \in {"ready", "error"} : CfFinish(uid, stage)

Media(r) ==
  \/ \E kind \in {"upload", "read", "post"} : RequireAuthReject(r, kind)
  \/ \E u \in Users, build \in Builds : UploadMint(r, u, build)
  \/ UploadUpsert(r)
  \/ \E u \in Users, uid \in UIDs : ReadLoad(r, u, uid)
  \/ \E u \in Users, uid \in UIDs : StatusBegin(r, u, uid)
  \/ \E withState \in BOOLEAN : ReadFetch(r, withState)
  \/ ReadDelete(r)
  \/ ReadPersist(r)

Webhook(r) ==
  \/ \E uid \in UIDs, secretSet \in BOOLEAN, headerMatches \in BOOLEAN,
        withState \in BOOLEAN :
        WebhookBegin(r, uid, secretSet, headerMatches, withState)
  \/ WebhookDelete(r)
  \/ WebhookUpdate(r)

CreatePost(r) ==
  \/ \E u \in Users, uid \in UIDs : PostLoad(r, u, uid)
  \/ PostFetch(r)
  \/ PostInsert(r)

Next ==
  \/ Provider
  \/ \E r \in ReqIds : Media(r) \/ Webhook(r) \/ CreatePost(r) \/ Respond(r)

Spec == Init /\ [][Next]_vars

\* ------------------------------------------------------ keyset pagination
\* new Date(value).toISOString(): a Date holds milliseconds, the timestamptz
\* column microseconds
normalizeTimestamp(value) == (value \div MICROS_PER_MILLI) * MICROS_PER_MILLI

\* A cursor token is modelled by the text it carries: <<"!">> for a string
\* of characters outside the base64url alphabet, <<"text">> for the
\* base64url of a text that is no JSON, <<"null">> and <<"{}">> for JSON
\* without fields, and <<key, value, ...>> for a JSON object, each value
\* with its kind: a datetime string, a uuid string, another string or a
\* number. <<"~", ...>> is the token after it with white space in it.
Datetime(t) == [kind |-> "datetime", v |-> t]
Uuid(i) == [kind |-> "uuid", v |-> i]
OtherString == [kind |-> "string", v |-> 0]
Number == [kind |-> "number", v |-> 0]
Absent == [kind |-> "absent", v |-> 0]

\* Faulty variant: the key of the timestamp is written in snake case.
encodeCursor_snake(c) ==
  <<"created_at", Datetime(c.createdAt), "id", Uuid(c.id)>>

\* base64url(JSON.stringify({createdAt, id}))
encodeCursor(c) == <<"createdAt", Datetime(c.createdAt), "id", Uuid(c.id)>>

\* Buffer.from(rawCursor, "base64url").toString("utf8"): never throws,
\* and skips the characters that are outside the alphabet
Base64Decode(rawCursor) ==
  IF rawCursor[1] = "~" THEN Tail(rawCursor) ELSE rawCursor

\* JSON.parse(text) throws: the text is no JSON
JsonThrows(text) == text[1] \in {"!", "text"}

\* parsed[key], undefined when the value is no object or has no such key
Field(parsed, key) ==
  IF \E i \in 1..(Len(parsed) \div 2) : parsed[2 * i - 1] = key
  THEN parsed[2 * (CHOOSE i \in 1..(Len(parsed) \div 2) : parsed[2 * i - 1] = key)]
  ELSE Absent

\* feedCursorSchema.safeParse(parsed).success
SchemaAccepts(parsed) ==
  /\ Field(parsed, "createdAt").kind = "datetime"
  /\ Field(parsed, "id").kind = "uuid"

\* validated.data: the two known keys, others stripped
SchemaData(parsed) ==
  [createdAt |-> Field(parsed, "createdAt").v, id |-> Field(parsed, "id").v]

\* Faulty variant: the parsed value is returned without the schema check.
decodeCursor_unvalidated(rawCursor) ==
  IF rawCursor = NoCursor THEN NoCursor
  ELSE LET parsed == Base64Decode(rawCursor) IN
       IF JsonThrows(parsed) THEN NoCursor ELSE SchemaData(parsed)

\* decodeCursor: null for an absent cursor, for a throw of JSON.parse (the
\* catch clause returns null) and for a value the schema rejects
decodeCursor(rawCursor) ==
  IF rawCursor = NoCursor THEN NoCursor
  ELSE LET parsed == Base64Decode(rawCursor) IN
       IF JsonThrows(parsed) THEN NoCursor
       ELSE IF ~SchemaAccepts(parsed) THEN NoCursor
            ELSE SchemaData(parsed)

\* Faulty variant: the bound includes the row of the cursor.
applyKeysetPagination_inclusive(rows, c) ==
  IF c = NoCursor THEN rows
  ELSE {row \in rows :
          \/ row.created_at < c.createdAt
          \/ row.created_at = c.createdAt /\ row.id <= c.id}

\* .or(created_at.lt.C, and(created_at.eq.C, id.lt.I))
applyKeysetPagination(rows, c) ==
  IF c = NoCursor THEN rows
  ELSE {row \in rows :
          \/ row.created_at < c.createdAt
          \/ row.created_at = c.createdAt /\ row.id < c.id}

\* .order("created_at", desc).order("id", desc): a comes before b
OrderedBefore(a, b) ==
  \/ a.created_at > b.created_at
  \/ a.created_at = b.created_at /\ a.id > b.id

RECURSIVE Ordered(_)
Ordered(rows) ==
  IF rows = {} THEN <<>>
  ELSE LET first == CHOOSE a \in rows :
                      \A b \in rows \ {a} : OrderedBefore(a, b)
       IN <<first>> \o Ordered(rows \ {first})

\* .limit(n)
Limit(seq, n) == IF Len(seq) <= n THEN seq ELSE SubSeq(seq, 1, n)

\* .eq("topic", ...) when a topic is given / .eq("author_id", ...) /
\* .eq("post_id", ...)
Scoped(rows, s) == IF s = "any" THEN rows ELSE {row \in rows : row.scope = s}

\* Faulty variant: the query asks for limit rows, without the probe row.
PageQuery_noprobe(rows, s, c, n) ==
  Limit(Ordered(applyKeysetPagination(Scoped(rows, s), c)), n)

\* the query of fetchPostPage and of GET /posts/:postId/comments
PageQuery(rows, s, c, n) ==
  Limit(Ordered(applyKeysetPagination(Scoped(rows, s), c)), n + 1)

\* Faulty variant: the schema has no upper bound.
ParseLimit_nomax(raw, default, max) ==
  IF raw = NoLimit THEN default
  ELSE IF raw < 1 THEN NoLimit
       ELSE raw

\* z.coerce.number().int().min(1).max(max).default(default): the limit, or
\* NoLimit when the schema rejects the parameter
ParseLimit(raw, default, max) ==
  IF raw = NoLimit THEN default
  ELSE IF raw < 1 \/ raw > max THEN NoLimit
       ELSE raw

\* Faulty variant: the route does not look at the outcome of decodeCursor.
InvalidCursor_ignored(rawCursor) == FALSE

\* parsed.data.cursor && !decodedCursor
InvalidCursor(rawCursor) ==
  rawCursor # NoCursor /\ decodeCursor(rawCursor) = NoCursor

\* hasNext, pageRows and nextCursor of one query with the decoded cursor c
\* and the limit n; the caller asks again with the cursor it was given.
PageCall(c, n) ==
  LET rows == PageQuery(table, scope, c, n)
      hasNext == Len(rows) > n
      pageRows == IF hasNext THEN SubSeq(rows, 1, n) ELSE rows
      last == pageRows[Len(pageRows)]
      nextCursor ==
        IF hasNext
        THEN encodeCursor([createdAt |-> normalizeTimestamp(last.created_at),
                           id |-> last.id])
        ELSE NoCursor
  IN
  /\ items' = items \o [i \in 1..Len(pageRows) |-> pageRows[i].id]
  /\ cursor' = nextCursor
  /\ calls' = IF nextCursor = NoCursor THEN "done" ELSE "walking"
  /\ queried' = Append(queried, n)

\* A listing route: the query schema, decodeCursor, then the store query.
ListRoute(default, max) ==
  /\ calls = "walking"
  /\ IF ParseLimit(limit, default, max) = NoLimit THEN
       /\ calls' = "badQuery"
       /\ UNCHANGED <<cursor, items, queried>>
     ELSE IF InvalidCursor(cursor) THEN
       /\ calls' = "badCursor"
       /\ UNCHANGED <<cursor, items, queried>>
     ELSE
       PageCall(decodeCursor(cursor), ParseLimit(limit, default, max))
  /\ UNCHANGED <<listing, table, scope, limit, given, codec>>
  /\ UNCHANGED <<toggleVars, videoVars, tallyVars, libVars>>

\* GET /v1/feed
fetchPostPage ==
  /\ listing = "posts"
  /\ ListRoute(DEFAULT_FEED_LIMIT, MAX_FEED_LIMIT)

\* GET /v1/users/:userId/posts
ListUserPosts ==
  /\ listing = "userPosts"
  /\ ListRoute(DEFAULT_FEED_LIMIT, MAX_FEED_LIMIT)

\* GET /v1/posts/:postId/comments
ListComments ==
  /\ listing = "comments"
  /\ ListRoute(DEFAULT_COMMENTS_LIMIT, MAX_COMMENTS_LIMIT)

\* the tables over the ids 1..MaxRows: any ids, created_at values and scopes
Tables ==
  UNION {[ids -> [created_at : CreatedAts, scope : Scopes]] :
           ids \in SUBSET (1..MaxRows)}

TableOf(f) ==
  {[id |-> i, created_at |-> f[i].created_at, scope |-> f[i].scope] :
     i \in DOMAIN f}

\* cursor parameters a client sends with its first call: none, strings that
\* decode to no cursor, and a cursor of an earlier walk
ClientCursors ==
  {NoCursor, <<"!">>, <<"createdAt", Datetime(2000)>>,
   <<"createdAt", Number, "id", Uuid(1)>>,
   <<"createdAt", Datetime(2000), "id", Uuid(2)>>}

\* the eq filter of a listing: the feed's topic is optional, the author of
\* user posts and the post of comments come with the path
ScopesOf(l) == IF l = "posts" THEN Scopes \cup {"any"} ELSE {"a"}

\* A snapshot of the table and the first call of a walk.
InitPage ==
  /\ listing \in {"posts", "userPosts", "comments"}
  /\ \E f \in Tables : table = TableOf(f)
  /\ scope \in ScopesOf(listing)
  /\ limit \in Limits \cup OtherLimits
  /\ given \in ClientCursors
  /\ cursor = given
  /\ items = <<>>
  /\ calls = "walking"
  /\ queried = <<>>
  /\ codec = IdleCodec
  /\ posts = {}
  /\ like_count = [p \in PostIds |-> 0]
  /\ view_count = [p \in PostIds |-> 0]
  /\ comment_count = [p \in PostIds |-> 0]
  /\ share_count = [p \in PostIds |-> 0]
  /\ comments = [p \in PostIds |-> 0]
  /\ calling = [t \in Callers |-> IdleCall]
  /\ sharesDone = [p \in PostIds |-> 0]
  /\ raised = "none"
  /\ InitLib
  /\ bookmark_count = [p \in PostIds |-> 0]
  /\ post_likes = {}
  /\ post_saves = {}
  /\ tx = [t \in TxIds |-> IdleTx]
  /\ started = 0
  /\ lastDone = NoToggle
  /\ lastIntent = [key \in Keys |-> [intent |-> "none", isolated |-> TRUE]]
  /\ onRun = [key \in Keys |-> 0]
  /\ video_uploads = [uid \in UIDs |-> NoRow]
  /\ cf = [uid \in UIDs |-> NoVideo]
  /\ reqs = [r \in ReqIds |-> IdleReq]
  /\ issued = 0
  /\ grantedTo = [uid \in UIDs |-> NoOne]

NextPage == fetchPostPage \/ ListUserPosts \/ ListComments

SpecPage == InitPage /\ [][NextPage]_vars

\* --------------------------------------------------------- the cursor codec
\* cursors with a timestamp of millisecond precision
ValidCursors ==
  [createdAt : {normalizeTimestamp(t) : t \in CreatedAts}, id : 1..MaxRows]

\* values a client can put under the keys of a token
TokenValues ==
  {Datetime(t) : t \in CreatedAts} \cup {Uuid(i) : i \in 1..MaxRows}
    \cup {OtherString, Number}

\* cursor parameters: strings of every kind
Tokens ==
  {<<"!">>, <<"text">>, <<"null">>, <<"{}">>}
    \cup {<<"createdAt", a>> : a \in TokenValues}
    \cup {<<"id", b>> : b \in TokenValues}
    \cup {<<"createdAt", a, "id", b>> : a \in TokenValues, b \in TokenValues}
    \cup {<<"id", b, "createdAt", a>> : a \in TokenValues, b \in TokenValues}
    \cup {<<"createdAt", a, "id", b, "extra", Number>> :
            a \in TokenValues, b \in TokenValues}
    \cup {<<"~">> \o encodeCursor(c) : c \in ValidCursors}
    \cup {<<"~", "text">>}

\* nextCursor of a page: encodeCursor of the last row's cursor
CodecEncode ==
  /\ codec.pc = "encode"
  /\ codec' = [codec EXCEPT !.pc = "decode",
                            !.token = encodeCursor(codec.source)]
  /\ UNCHANGED <<listing, table, scope, limit, cursor, items, calls, given,
                 queried>>
  /\ UNCHANGED <<toggleVars, videoVars, tallyVars, libVars>>

\* the next request: decodeCursor of its cursor parameter
CodecDecode ==
  /\ codec.pc = "decode"
  /\ codec' = [codec EXCEPT !.pc = "done",
                            !.result = decodeCursor(codec.token)]
  /\ UNCHANGED <<listing, table, scope, limit, cursor, items, calls, given,
                 queried>>
  /\ UNCHANGED <<toggleVars, videoVars, tallyVars, libVars>>

\* A cursor to encode, or a cursor parameter to decode.
InitCursor ==
  /\ \/ \E c \in ValidCursors :
          codec = [IdleCodec EXCEPT !.pc = "encode", !.source = c]
     \/ \E t \in Tokens :
          codec = [IdleCodec EXCEPT !.pc = "decode", !.token = t]
  /\ listing = "none"
  /\ table = {}
  /\ scope = "any"
  /\ limit = 1
  /\ cursor = NoCursor
  /\ items = <<>>
  /\ calls = "done"
  /\ given = NoCursor
  /\ queried = <<>>
  /\ posts = {}
  /\ like_count = [p \in PostIds |-> 0]
  /\ view_count = [p \in PostIds |-> 0]
  /\ comment_count = [p \in PostIds |-> 0]
  /\ share_count = [p \in PostIds |-> 0]
  /\ comments = [p \in PostIds |-> 0]
  /\ calling = [t \in Callers |-> IdleCall]
  /\ sharesDone = [p \in PostIds |-> 0]
  /\ raised = "none"
  /\ InitLib
  /\ bookmark_count = [p \in PostIds |-> 0]
  /\ post_likes = {}
  /\ post_saves = {}
  /\ tx = [t \in TxIds |-> IdleTx]
  /\ started = 0
  /\ lastDone = NoToggle
  /\ lastIntent = [key \in Keys |-> [intent |-> "none", isolated |-> TRUE]]
  /\ onRun = [key \in Keys |-> 0]
  /\ video_uploads = [uid \in UIDs |-> NoRow]
  /\ cf = [uid \in UIDs |-> NoVideo]
  /\ reqs = [r \in ReqIds |-> IdleReq]
  /\ issued = 0
  /\ grantedTo = [uid \in UIDs |-> NoOne]

NextCursor == CodecEncode \/ CodecDecode

SpecCursor == InitCursor /\ [][NextCursor]_vars

\* ------------------------------------------------ claims about the listings
\* the ids of the snapshot's rows in (created_at desc, id desc) order
SnapshotIds ==
  LET rows == Ordered(Scoped(table, scope))
  IN [i \in 1..Len(rows) |-> rows[i].id]

\* C1: a walk from no cursor until nextCursor = null returns exactly the
\* rows of the snapshot, in (createdAt desc, id desc) order, none twice and
\* none omitted, also when created_at values collide or differ below a
\* millisecond.
C1_PaginationTotal ==
  (calls = "done" /\ given = NoCursor) => items = SnapshotIds

\* the row of the table with this id
RowOf(i) == CHOOSE row \in table : row.id = i

\* the rows a store query has added to the walk in this step
PageRows == SubSeq(items', Len(items) + 1, Len(items'))

\* a store query runs in this step
Queries == queried' # queried

\* the row is strictly after the cursor c in the descending order
StrictlyAfter(row, c) ==
  \/ c = NoCursor
  \/ row.created_at < c.createdAt
  \/ row.created_at = c.createdAt /\ row.id < c.id

\* the rows of the listing that pass its filter and the bound of c
Matching(c) ==
  {row \in table : (scope = "any" \/ row.scope = scope) /\ StrictlyAfter(row, c)}

\* C25: a page requested with the cursor (k, t) holds only rows with
\* createdAt < k, or createdAt = k and id < t; the row at (k, t) is not in
\* it, and a row that passes bound and filter and is not in the page comes
\* after every row of the page.
C25_KeysetExclusive ==
  [][Queries =>
       LET c == decodeCursor(cursor) IN
       /\ \A i \in 1..Len(PageRows) : RowOf(PageRows[i]) \in Matching(c)
       /\ c # NoCursor =>
            \A i \in 1..Len(PageRows) :
              ~(RowOf(PageRows[i]).created_at = c.createdAt
                  /\ PageRows[i] = c.id)
       /\ \A row \in Matching(c) :
            (\A i \in 1..Len(PageRows) : PageRows[i] # row.id) =>
              \A i \in 1..Len(PageRows) :
                OrderedBefore(RowOf(PageRows[i]), row)]_vars

\* A page was cut at a cursor whose row has rows with the same timestamp on
\* both sides of it.
C25_Witness ==
  /\ given = <<"createdAt", Datetime(2000), "id", Uuid(2)>>
  /\ \A i \in 1..3 : \E row \in table :
       row.id = i /\ row.created_at = 2000 /\ row.scope = "a"
  /\ listing = "posts"
  /\ scope = "a"
  /\ items = <<1>>
  /\ calls = "done"

\* C26: a page holds at most limit rows, and nextCursor is non-null exactly
\* when a row that passes filter and bound exists beyond the rows of the
\* page.
C26_ProbeRow ==
  [][Queries =>
       LET c == decodeCursor(cursor)
           n == queried'[Len(queried')]
       IN
       /\ Len(PageRows) <= n
       /\ cursor' # NoCursor <=>
            \E row \in Matching(c) :
              \A i \in 1..Len(PageRows) : PageRows[i] # row.id]_vars

\* A page of two rows with a third row behind it, then the last page.
C26_Witness ==
  /\ Cardinality(table) = 3
  /\ scope = "any"
  /\ limit = 2
  /\ given = NoCursor
  /\ queried = <<2, 2>>
  /\ Len(items) = 3
  /\ calls = "done"

\* C27: the nextCursor of a page decodes to the created_at of the last row
\* of the page as stored, and to its id.
C27_CursorIsLastRow ==
  (calls = "walking" /\ queried # <<>>) =>
    LET c == decodeCursor(cursor)
        last == RowOf(items[Len(items)])
    IN c.createdAt = last.created_at /\ c.id = last.id

\* C28: with an equality filter every row of every page passes the filter,
\* and a walk from the first page to nextCursor = null returns exactly the
\* rows that pass it, in the order they have in the walk without filter.
C28_FilterComposes ==
  (listing \in {"posts", "userPosts"} /\ scope # "any" /\ given = NoCursor) =>
    /\ \A i \in 1..Len(items) : RowOf(items[i]).scope = scope
    /\ calls = "done" =>
         LET all == Ordered(table)
             kept == SelectSeq(all, LAMBDA row : row.scope = scope)
         IN items = [i \in 1..Len(kept) |-> kept[i].id]

\* ------------------------------------------------- claims about the toggles
PairCount(rel, p) == Cardinality({pair \in rel : pair[1] = p})

\* An 'off' that commits now, right after the 'on' of the same user on the
\* same post committed, and that was issued after that 'on' had returned.
OffFollowsOn(t) ==
  /\ ~tx[t].intent /\ ~tx[t].stale /\ ~tx[t].conc
  /\ lastDone.intent
  /\ lastDone.kind = tx[t].kind
  /\ lastDone.post = tx[t].post /\ lastDone.user = tx[t].user
  /\ tx[t].post \in PostIds

CountAfter(k, p) == IF k = "like" THEN like_count'[p] ELSE bookmark_count'[p]

OnRunAtMostOne == \A key \in Keys : onRun[key] <= 1

\* C5 as stated: concurrent or repeated on-toggles of one user raise the
\* count of a post by at most 1, and on followed by off restores the count
\* the post had before the pair, whatever the user's prior state was.
C5_ToggleRestoresAlways ==
  [][\A t \in TxIds : ToggleCommit(t) =>
       /\ OnRunAtMostOne'
       /\ OffFollowsOn(t) =>
            CountAfter(tx[t].kind, tx[t].post) = lastDone.before]_vars

\* C5 amended: concurrent or repeated on-toggles of one user raise the count
\* of a post by at most 1; on followed by off restores the count the post
\* had before the pair when the user's pair was absent before it, and
\* leaves it one lower (never below 0) when the pair was already present.
C5_ToggleRestores ==
  [][\A t \in TxIds : ToggleCommit(t) =>
       /\ OnRunAtMostOne'
       /\ OffFollowsOn(t) =>
            CountAfter(tx[t].kind, tx[t].post) =
              IF lastDone.member THEN Greatest(0, lastDone.before - 1)
              ELSE lastDone.before]_vars

\* Two on-toggles of the same user and post overlapped: the first has
\* committed and raised the count, the second found the pair and changes
\* nothing.
C5_Witness ==
  \E t \in TxIds :
    /\ tx[t].pc = "count" /\ tx[t].intent /\ tx[t].conc /\ tx[t].stale
    /\ ~tx[t].did_change
    /\ tx[t].post \in PostIds
    /\ onRun[<<tx[t].kind, tx[t].post, tx[t].user>>] = 1

\* C6: in every committed state each post's like_count is the number of its
\* post_likes rows and its bookmark_count the number of its post_saves rows.
C6_CountersMatchRelations ==
  \A p \in PostIds :
    /\ like_count[p] = PairCount(post_likes, p)
    /\ bookmark_count[p] = PairCount(post_saves, p)

\* Both users like the post while a third call is still in flight.
C6_Witness ==
  /\ \E p \in PostIds : like_count[p] = 2 /\ PairCount(post_likes, p) = 2
  /\ \E t \in TxIds : tx[t].pc = "count"

PairPresent(key) == <<key[2], key[3]>> \in Rel(key[1])

RelationChanged == post_likes' # post_likes \/ post_saves' # post_saves

\* C7 as stated: the pair is in the relation exactly when the toggle of
\* that user and post that committed last had intent on, and a toggle
\* reports a change only when it inserted or deleted the pair.
C7_LastCommittedWins ==
  [][\A t \in TxIds : ToggleCommit(t) =>
       /\ \A key \in Keys : lastIntent'[key].intent # "none" =>
            (PairPresent(key)' <=> lastIntent'[key].intent = "on")
       /\ tx[t].did_change => RelationChanged]_vars

\* C7 amended: the pair is in the relation exactly when the toggle that
\* committed last had intent on, provided that toggle overlapped no other
\* toggle of the same user and post; a toggle reports a change only when it
\* inserted or deleted the pair.
C7_LastIsolatedWins ==
  [][\A t \in TxIds : ToggleCommit(t) =>
       /\ \A key \in Keys :
            lastIntent'[key].intent # "none" /\ lastIntent'[key].isolated =>
              (PairPresent(key)' <=> lastIntent'[key].intent = "on")
       /\ tx[t].did_change => RelationChanged]_vars

\* An isolated 'off' has committed last and removed a pair that an
\* earlier toggle had inserted.
C7_Witness ==
  /\ lastDone.member /\ ~lastDone.intent
  /\ lastDone.post \in PostIds
  /\ lastIntent[<<lastDone.kind, lastDone.post, lastDone.user>>]
       = [intent |-> "off", isolated |-> TRUE]
  /\ <<lastDone.post, lastDone.user>> \notin Rel(lastDone.kind)



\* -------------------------------------------------- claims about the videos
Reconciles(r) == reqs[r].kind \in {"read", "webhook"}

\* the request on slot r takes a step
Steps(r) == reqs'[r] # reqs[r]

\* The row of the uid was created by a grant to another user than u.
GrantedToOther(uid, u) ==
  uid \in UIDs /\ u # NoOne /\ grantedTo[uid] \notin {NoOne, u}

\* C2: a uid with a reported duration of 181 s can be reconciled twice:
\* no reconciliation fails because the video is already gone, and after a
\* reconciliation that deleted the video the local row is in an error or
\* removed state.
C2_BackstopIdempotent ==
  \A r \in ReqIds :
    (Reconciles(r) /\ reqs[r].pc = "reply" /\ reqs[r].uid \in UIDs
       /\ Round(cf[reqs[r].uid].duration) = 181) =>
      /\ reqs[r].err # "gone"
      /\ (reqs[r].sentDelete /\ reqs[r].code \in {200, 422}) =>
           video_uploads[reqs[r].uid].status \in {"error", "none"}

\* C3: a user other than the one the upload grant was issued to is answered
\* Forbidden when polling the uid, reading its status or creating a post
\* with it, and no step of such a request changes video_uploads or posts.
C3_OwnershipIsolation ==
  [][\A r \in ReqIds :
       (Steps(r) /\ reqs'[r].kind \in {"read", "post"}
          /\ GrantedToOther(reqs'[r].uid, reqs'[r].user)) =>
         /\ reqs'[r].pc = "reply" => reqs'[r].code = 403
         /\ video_uploads' = video_uploads
         /\ posts' = posts]_vars

\* C4: the user_id stored for a uid is the user the upload grant for that
\* uid was issued to.
C4_NeverReassigned ==
  \A uid \in UIDs :
    grantedTo[uid] # NoOne => video_uploads[uid].user_id = grantedTo[uid]

\* C8: a row of video_uploads with status ready has a duration that is set
\* and at most 180.
C8_ReadyHasLegalDuration ==
  \A uid \in UIDs :
    video_uploads[uid].status = "ready" =>
      /\ video_uploads[uid].duration_seconds # NULL
      /\ video_uploads[uid].duration_seconds <= 180

\* C9: a poll or a webhook that has obtained a rounded duration above 180
\* has sent the remote DELETE before it writes the local row or answers.
C9_BackstopOnEveryPath ==
  \A r \in ReqIds :
    Reconciles(r) =>
      /\ (reqs[r].pc \in {"persist", "update", "reply"} /\ reqs[r].dur > 180) =>
           reqs[r].sentDelete
      /\ reqs[r].err = "exceeds" => reqs[r].sentDelete

C9_Witness ==
  \E r, q \in ReqIds :
    /\ reqs[r].kind = "read" /\ reqs[r].err = "exceeds" /\ reqs[r].sentDelete
    /\ reqs[q].kind = "webhook" /\ reqs[q].sentDelete /\ reqs[q].pc = "reply"

\* C10: a remote DELETE that meets an already deleted video is treated as
\* success: no request that has sent the DELETE answers with that failure.
C10_DeleteTolerant ==
  \A r \in ReqIds :
    (reqs[r].pc = "reply" /\ reqs[r].sentDelete) => reqs[r].err # "gone"


\* C11: once the secret check has passed, the webhook handler answers with
\* the acknowledgment, whether or not the video is over the limit and
\* whether or not the remote DELETE or the store write succeeds.
C11_WebhookAlwaysAcks ==
  \A r \in ReqIds :
    (reqs[r].kind = "webhook" /\ reqs[r].pc = "reply" /\ reqs[r].code # 401) =>
      reqs[r].code = 200

InLimit(uid) == Round(cf[uid].duration) <= 180

\* C12: a video post is inserted only when, at that time, video_uploads
\* has a row of the uid owned by the author with status ready and the
\* duration is at most 180; POST /posts answers 403 for a missing or foreign
\* row, 409 for a video that is not ready and 422 for one over the limit,
\* and no rejected request inserts a post.
C12_VideoPostGuarded ==
  [][\A r \in ReqIds : (Steps(r) /\ reqs'[r].kind = "post") =>
       LET uid == reqs'[r].uid
           u == reqs'[r].user
           row == video_uploads[uid]
       IN
       /\ posts' # posts =>
            /\ row.user_id = u /\ row.status = "ready"
            /\ InLimit(uid)
       /\ (reqs[r].pc = "idle" /\ u # NoOne /\ (row = NoRow \/ row.user_id # u)) =>
            reqs'[r].code = 403
       /\ (reqs[r].pc = "fetch" /\ reqs'[r].err # "upstream" /\ CfHolds(uid)) =>
            /\ ~CfReady(uid) => reqs'[r].code = 409
            /\ (CfReady(uid) /\ ~InLimit(uid)) => reqs'[r].code = 422
       /\ reqs'[r].code \in {403, 409, 422} => posts' = posts]_vars

\* C13: a webhook for a granted uid with a duration over the limit leaves
\* the remote video deleted and the local row marked errored, and a later
\* POST /posts with the uid is answered 409 or 422 and inserts no post.
C13_OverLimitWebhookScenario ==
  [][\A r \in ReqIds : Steps(r) =>
       /\ (reqs[r].kind = "webhook" /\ reqs[r].pc = "update"
             /\ reqs[r].sentDelete /\ video_uploads[reqs[r].uid] # NoRow) =>
            /\ cf'[reqs[r].uid].deleted
            /\ video_uploads'[reqs[r].uid].status = "error"
       /\ (reqs[r].kind = "post" /\ reqs[r].pc = "fetch"
             /\ cf[reqs[r].uid].deleted /\ reqs'[r].err # "upstream") =>
            /\ reqs'[r].code \in {409, 422}
            /\ posts' = posts]_vars

\* C14: for a uid granted to U whose video the provider reports ready with
\* an in-limit duration, the status read by U carries readyToStream = true,
\* that duration and state "ready"; POST /posts with the uid by U inserts
\* the post, and by another user is answered 403.
C14_HappyPathScenario ==
  [][\A r \in ReqIds : Steps(r) =>
       LET uid == reqs[r].uid
           fine == CfHolds(uid) /\ CfReady(uid) /\ InLimit(uid)
       IN
       /\ (reqs[r].kind = "read" /\ reqs[r].pc = "fetch" /\ fine
             /\ reqs'[r].err # "upstream") =>
            /\ reqs'[r].pc = "persist"
            /\ StatusBody(reqs'[r]) =
                 [uid |-> uid, readyToStream |-> TRUE,
                  durationSeconds |-> (cf[uid].duration + 5) \div 10,
                  state |-> "ready"]
       /\ (reqs[r].kind = "read" /\ reqs[r].pc = "persist"
             /\ reqs'[r].err # "store") =>
            /\ reqs'[r].code = 200
            /\ StatusBody(reqs'[r]) = StatusBody(reqs[r])
       /\ (reqs[r].kind = "post" /\ reqs[r].pc = "fetch" /\ fine
             /\ reqs'[r].err # "upstream") =>
            reqs'[r].pc = "insert"
       /\ (reqs[r].kind = "post" /\ reqs[r].pc = "insert"
             /\ reqs'[r].err = "none") =>
            /\ reqs'[r].code = 200
            /\ \E row \in posts' :
                 row.cloudflare_uid = uid /\ row.author_id = reqs[r].user
       /\ (reqs[r].pc = "idle" /\ reqs'[r].kind = "post"
             /\ GrantedToOther(reqs'[r].uid, reqs'[r].user)
             /\ video_uploads[reqs'[r].uid].user_id = grantedTo[reqs'[r].uid]) =>
            reqs'[r].code = 403]_vars

\* U's status read of a ready video is answered while U's post with the
\* same uid has been inserted.
C14_Witness ==
  \E r, q \in ReqIds :
    /\ reqs[r].kind = "read" /\ reqs[r].pc = "reply" /\ reqs[r].code = 200
    /\ reqs[r].ready /\ StatusBody(reqs[r]).durationSeconds = 180
    /\ reqs[q].kind = "post" /\ reqs[q].pc = "reply" /\ reqs[q].code = 200
    /\ reqs[q].user = reqs[r].user
    /\ \E row \in posts : row.author_id = reqs[q].user

\* C18: POST /video/direct-upload, when it answers 200, has left the row
\* of the uid with user_id = the requester and status pending, and answers
\* {uid, uploadUrl, maxDurationSeconds = 180}, the cap it sent the provider.
C18_GrantLeavesPendingRow ==
  [][\A r \in ReqIds :
       (Steps(r) /\ reqs[r].kind = "upload" /\ reqs[r].pc = "upsert"
          /\ reqs'[r].code = 200) =>
         /\ video_uploads'[reqs[r].uid].user_id = reqs[r].user
         /\ video_uploads'[reqs[r].uid].status = "pending"
         /\ GrantBody(reqs'[r]).uid = reqs[r].uid
         /\ GrantBody(reqs'[r]).maxDurationSeconds = 180
         /\ DirectUploadRequest(reqs[r].user).maxDurationSeconds = 180]_vars

\* C19: with a secret configured and a header that is missing or differs,
\* the webhook is answered 401 and neither a remote DELETE nor a store write
\* follows; without a configured secret no webhook is answered 401.
C19_WebhookSecretChecked ==
  [][\A r \in ReqIds, uid \in UIDs, secretSet \in BOOLEAN,
        headerMatches \in BOOLEAN, withState \in BOOLEAN :
       WebhookBegin(r, uid, secretSet, headerMatches, withState) =>
         /\ (secretSet /\ ~headerMatches) =>
              /\ reqs'[r].pc = "reply" /\ reqs'[r].code = 401
              /\ ~reqs'[r].sentDelete
              /\ cf' = cf /\ video_uploads' = video_uploads
         /\ (~secretSet \/ headerMatches) => reqs'[r].code # 401]_vars

\* One webhook has been answered 401 while another one has passed the check.
C19_Witness ==
  \E r, q \in ReqIds :
    /\ reqs[r].kind = "webhook" /\ reqs[r].code = 401
    /\ reqs[q].kind = "webhook" /\ reqs[q].pc \in {"delete", "update"}


Encodings == {encodeCursor(c) : c \in ValidCursors}

\* the text of a token is no JSON
NotJson(text) == text[1] \in {"!", "text"}

\* the JSON value has no field of this key
MissingField(text, key) ==
  ~\E i \in 1..(Len(text) \div 2) : text[2 * i - 1] = key

\* the JSON value has a field of this key whose value is not of this kind
WronglyTyped(text, key, kind) ==
  \E i \in 1..(Len(text) \div 2) :
    text[2 * i - 1] = key /\ text[2 * i].kind # kind

\* the JSON value has this value under this key
Carries(text, key, value) ==
  \E i \in 1..(Len(text) \div 2) : text[2 * i - 1] = key /\ text[2 * i] = value

\* a token whose text is no JSON, or lacks or wrongly types a field
Malformed(rawCursor) ==
  LET text == Base64Decode(rawCursor) IN
  \/ NotJson(text)
  \/ MissingField(text, "createdAt") \/ MissingField(text, "id")
  \/ WronglyTyped(text, "createdAt", "datetime")
  \/ WronglyTyped(text, "id", "uuid")

\* C16 as stated: every string that is not the encoding of a valid cursor
\* decodes to null.
C16_NonEncodingsAreInvalid ==
  (codec.pc = "done" /\ codec.source = NoCursor
     /\ codec.token \notin Encodings) => codec.result = NoCursor

\* C16 as the code has it: decodeCursor returns for every string, null or
\* a cursor; a string whose text is no JSON, or lacks or wrongly types a
\* field, decodes to null; any other string decodes to the cursor its
\* fields carry, also when it is not the encoding of a valid cursor.
C16_DecodeTotal ==
  (codec.pc = "done" /\ codec.source = NoCursor) =>
    /\ Malformed(codec.token) => codec.result = NoCursor
    /\ ~Malformed(codec.token) =>
         /\ codec.result # NoCursor
         /\ Carries(Base64Decode(codec.token), "createdAt",
                    Datetime(codec.result.createdAt))
         /\ Carries(Base64Decode(codec.token), "id", Uuid(codec.result.id))

C16_Witness ==
  /\ codec.pc = "done"
  /\ codec.source = NoCursor
  /\ codec.token = <<"id", Uuid(1), "createdAt", Datetime(2000)>>
  /\ codec.token \notin Encodings
  /\ codec.result = [createdAt |-> 2000, id |-> 1]


\* the first page of the listing: its first rows in the order of the query
FirstPage(n) ==
  LET rows == Limit(Ordered(Scoped(table, scope)), n)
  IN [i \in 1..Len(rows) |-> rows[i].id]

\* the limit parameter is one the query schema of the listing accepts
LimitAccepted ==
  \/ limit = NoLimit
  \/ /\ limit >= 1
     /\ limit <= (IF listing = "comments" THEN 50 ELSE 30)

\* C17: in the three listings a cursor parameter that does not decode to a
\* cursor is answered 400 before any store query runs ("Invalid cursor" when
\* the rest of the query is acceptable), and a request without a cursor
\* parameter is answered with the first page.
C17_InvalidCursorRejected ==
  /\ (given # NoCursor /\ decodeCursor(given) = NoCursor /\ calls # "walking")
       => /\ calls \in {"badCursor", "badQuery"}
          /\ LimitAccepted => calls = "badCursor"
          /\ queried = <<>>
          /\ items = <<>>
  /\ (given = NoCursor /\ LimitAccepted /\ calls # "walking")
       => /\ Len(queried) >= 1
          /\ SubSeq(items, 1, Len(FirstPage(queried[1])))
               = FirstPage(queried[1])

C17_Witness ==
  /\ listing = "comments"
  /\ given = <<"createdAt", Number, "id", Uuid(1)>>
  /\ limit = 2
  /\ table # {}
  /\ calls = "badCursor"

\* the limit of the claim's range nearest to the requested one
Clamped ==
  LET max == IF listing = "comments" THEN 50 ELSE 30
      default == IF listing = "comments" THEN 20 ELSE 10
  IN IF limit = NoLimit THEN default
     ELSE IF limit < 1 THEN 1
          ELSE IF limit > max THEN max ELSE limit

\* C20 as stated: whatever limit is requested, the request is served, with
\* the requested limit clamped into 1..30 (1..50 for comments), 10 (20) when
\* there is none.
C20_LimitClamped ==
  (calls # "walking" /\ ~(given # NoCursor /\ decodeCursor(given) = NoCursor))
    => /\ Len(queried) >= 1
       /\ \A i \in 1..Len(queried) : queried[i] = Clamped

\* C20 as the code has it: the page size of every query is within 1..30
\* (1..50 for comments), the requested limit when there is one and 10 (20)
\* when there is none; a request with a limit out of the range is not
\* served: it is answered 400 and no query runs.
C20_LimitInRange ==
  /\ \A i \in 1..Len(queried) :
       /\ queried[i] >= 1
       /\ queried[i] <= (IF listing = "comments" THEN 50 ELSE 30)
       /\ queried[i] = Clamped
  /\ (~LimitAccepted /\ calls # "walking")
       => calls = "badQuery" /\ queried = <<>> /\ items = <<>>

C20_Witness ==
  /\ listing = "posts"
  /\ limit = 31
  /\ given = NoCursor
  /\ table # {}
  /\ calls = "badQuery"


\* ------------------------------------- claims about provider calls and status
\* the request's call of the provider has failed
ProviderFailed(req) == req.err \in {"upstream", "gone"}

\* C22: when the provider call of an upload grant, a poll or a post creation
\* fails, the request is answered with an error, and it writes no pending
\* row, no status and no post.
C22_ProviderFailurePropagates ==
  [][\A r \in ReqIds :
       (Steps(r) /\ reqs'[r].kind \in {"upload", "read", "post"}
          /\ ProviderFailed(reqs'[r])) =>
         /\ reqs'[r].pc = "reply"
         /\ reqs'[r].code >= 500
         /\ video_uploads' = video_uploads
         /\ posts' = posts
         /\ grantedTo' = grantedTo]_vars

\* A grant and a post creation have each met a failing provider call.
C22_Witness ==
  /\ reqs[1].kind = "upload" /\ reqs[1].pc = "reply"
  /\ reqs[1].err = "upstream" /\ reqs[1].code = 500
  /\ reqs[2].kind = "post" /\ reqs[2].pc = "reply"
  /\ reqs[2].err = "upstream" /\ reqs[2].code = 500
  /\ video_uploads["v1"].status = "pending"
  /\ posts = {}

\* C23: a request answered 422 for a duration above the cap has sent the
\* remote DELETE of the video, on the poll path and on the post path.
C23_RejectionDeletes ==
  \A r \in ReqIds :
    (reqs[r].pc = "reply" /\ reqs[r].code = 422 /\ reqs[r].err = "exceeds")
      => reqs[r].sentDelete

\* C24: the status of every row of video_uploads is one of pending,
\* processing, ready, error.
C24_StatusEnum ==
  \A uid \in UIDs :
    video_uploads[uid] # NoRow =>
      video_uploads[uid].status \in {"pending", "processing", "ready", "error"}

\* the status the rule gives for a provider report
RuleStatus(state, ready) ==
  IF state # "none" THEN state ELSE IF ready THEN "ready" ELSE "processing"

\* the request on slot r ends a reconciliation that has passed the duration
\* check with a successful answer
Reconciled(r) ==
  /\ Steps(r)
  /\ Reconciles(r)
  /\ reqs[r].pc \in {"persist", "update"}
  /\ reqs[r].dur <= 180
  /\ reqs'[r].pc = "reply" /\ reqs'[r].code = 200

\* C29: a reconciliation that passes the duration check stores, and a poll
\* reports, the provider's state string when there is one, else ready when
\* readyToStream is set and processing when it is not.
C29_StatusRule ==
  [][\A r \in ReqIds :
       Reconciled(r) =>
         LET status == RuleStatus(reqs[r].state, reqs[r].ready) IN
         /\ video_uploads' # video_uploads =>
              video_uploads'[reqs[r].uid].status = status
         /\ reqs[r].kind = "read" => StatusBody(reqs'[r]).state = status]_vars

CountersOf(p) ==
  <<like_count[p], bookmark_count[p], view_count[p], comment_count[p],
    share_count[p]>>

\* a toggle of kind k on post p commits in this step
Commits(k, p) ==
  \E t \in TxIds :
    /\ tx[t].pc = "count" /\ tx[t].kind = k /\ tx[t].post = p
    /\ tx'[t].pc = "idle"

\* the counter moves by the number of rows its relation gains or loses
FollowsRelation(c, rel, p) ==
  c'[p] - c[p] = PairCount(rel', p) - PairCount(rel, p)

\* the counters of post p change in this step only as an operation changes
\* them: a committing toggle by the row it inserts or deletes, a comment
\* creation and a share by one, and view_count not at all
ChangedByOperation(p) ==
  /\ like_count'[p] # like_count[p] =>
       Commits("like", p) /\ FollowsRelation(like_count, post_likes, p)
  /\ bookmark_count'[p] # bookmark_count[p] =>
       Commits("save", p) /\ FollowsRelation(bookmark_count, post_saves, p)
  /\ comment_count'[p] - comment_count[p] = comments'[p] - comments[p]
  /\ comment_count'[p] - comment_count[p] \in {0, 1}
  /\ share_count'[p] - share_count[p] \in {0, 1}
  /\ view_count'[p] = view_count[p]
  /\ CountersOf(p)' # CountersOf(p) =>
       \/ \E k \in Kinds : Commits(k, p)
       \/ \E t \in Callers : calling[t].post = p /\ calling'[t] = IdleCall

\* C21: after any sequence of toggles, shares and comment creations every
\* counter of every post is a non-negative integer, and the counters change
\* only through those operations.
C21_CountersNonNegative ==
  /\ [](\A p \in PostIds : \A i \in 1..5 : CountersOf(p)[i] \in Nat)
  /\ [][\A p \in PostIds : ChangedByOperation(p)]_vars

\* A like was taken back and the post was shared.
C21_Witness ==
  /\ lastDone.kind = "like" /\ ~lastDone.intent /\ lastDone.before = 1
  /\ like_count[1] = 0
  /\ share_count[1] = 1
  /\ started = MaxToggles


\* --------------------------------------------- claims about the boundaries
\* C31: a poll for a uid without a row, or by a user who is not the row's
\* owner, is answered 404 or 403 at once: it never queries the provider,
\* sends no DELETE and changes no row.
C31_PollChecksFirst ==
  [][\A r \in ReqIds :
       (Steps(r) /\ reqs[r].pc = "idle" /\ reqs'[r].kind = "read"
          /\ reqs'[r].user # NoOne
          /\ \/ video_uploads[reqs'[r].uid] = NoRow
             \/ video_uploads[reqs'[r].uid].user_id # reqs'[r].user) =>
         /\ reqs'[r].pc = "reply"
         /\ reqs'[r].code =
              (IF video_uploads[reqs'[r].uid] = NoRow THEN 404 ELSE 403)
         /\ video_uploads' = video_uploads
         /\ cf' = cf]_vars

\* the duration the provider reports for the uid, rounded, is above the cap
RoundsOver(uid) == (cf[uid].duration + 5) \div 10 > 180

\* C32: a poll, a webhook or a post creation treats the video as over the
\* limit exactly when the rounded duration is above 180; a video of 180
\* seconds is accepted, and no DELETE is sent for it.
C32_StrictThreshold ==
  [][\A r \in ReqIds : Steps(r) =>
       /\ (reqs[r].kind = "read" /\ reqs[r].pc = "fetch"
             /\ reqs'[r].err = "none") =>
            (reqs'[r].pc = "delete" <=> RoundsOver(reqs[r].uid))
       /\ (reqs[r].pc = "idle" /\ reqs'[r].kind = "webhook"
             /\ reqs'[r].code # 401) =>
            (reqs'[r].pc = "delete" <=> RoundsOver(reqs'[r].uid))
       /\ (reqs[r].kind = "post" /\ reqs[r].pc = "fetch"
             /\ reqs'[r].err \notin {"upstream", "gone"}
             /\ cf[reqs[r].uid].stage = "ready") =>
            (reqs'[r].code = 422 <=> RoundsOver(reqs[r].uid))
       /\ (reqs'[r].sentDelete /\ ~reqs[r].sentDelete) =>
            RoundsOver(reqs[r].uid)]_vars

\* A video of 180.4 seconds has been accepted by a poll and by a post
\* creation, and it is still at the provider.
C32_Witness ==
  /\ cf["v1"].duration = 1804 /\ ~cf["v1"].deleted
  /\ reqs[1].kind = "read" /\ reqs[1].pc = "reply" /\ reqs[1].code = 200
  /\ reqs[1].dur = 180
  /\ reqs[2].kind = "post" /\ reqs[2].pc = "reply" /\ reqs[2].code = 200

\* C37: a webhook creates no row and leaves user_id as it is: without a
\* row of the uid the store is unchanged, with one only status and
\* duration_seconds change.
C37_WebhookKeepsOwner ==
  [][\A r \in ReqIds :
       (Steps(r) /\ reqs[r].kind = "webhook") =>
         /\ \A uid \in UIDs :
              /\ video_uploads[uid] = NoRow => video_uploads'[uid] = NoRow
              /\ video_uploads'[uid].user_id = video_uploads[uid].user_id
              /\ uid # reqs[r].uid => video_uploads'[uid] = video_uploads[uid]
         /\ posts' = posts
         /\ grantedTo' = grantedTo]_vars

\* A webhook for a uid without a row has been acknowledged, and another one
\* is about to write.
C37_Witness ==
  /\ video_uploads["v1"] = NoRow
  /\ cf["v1"].stage = "inprogress"
  /\ reqs[2].kind = "webhook" /\ reqs[2].pc = "reply" /\ reqs[2].code = 200

\* the posts that reference the uid
PostsOf(uid) == {row \in posts : row.cloudflare_uid = uid}

\* C38: at most one post references a uid, and a post creation that comes
\* to its insert when a post with the uid exists fails and inserts nothing.
C38_UidOnOnePost ==
  /\ [](\A uid \in UIDs : Cardinality(PostsOf(uid)) <= 1)
  /\ [][\A r \in ReqIds :
          (Steps(r) /\ reqs[r].kind = "post" /\ reqs[r].pc = "insert"
             /\ PostsOf(reqs[r].uid) # {}) =>
            /\ posts' = posts
            /\ reqs'[r].code >= 400]_vars

\* Two post creations with the same uid came to their insert; one has
\* inserted its post, the other has failed on the unique index.
C38_Witness ==
  /\ Cardinality(PostsOf("v1")) = 1
  /\ \E r, q \in ReqIds :
       /\ reqs[r].kind = "post" /\ reqs[r].pc = "reply" /\ reqs[r].code = 200
       /\ reqs[q].kind = "post" /\ reqs[q].pc = "reply"
       /\ reqs[q].err = "unique"

\* C39: an upload grant is answered with a uid only when the pending row of
\* that uid is in the store.
C39_GrantImpliesRow ==
  \A r \in ReqIds :
    (reqs[r].kind = "upload" /\ reqs[r].pc = "reply" /\ reqs[r].code = 200)
      => video_uploads[reqs[r].uid] # NoRow


\* C34: every successful increment_post_share raises the post's share_count
\* by exactly 1 and returns the new value, so the counter equals the number of
\* successful shares whatever their interleaving (no lost update); a share of
\* a post that does not exist fails and changes no counter.
C34_SharesAtomic ==
  /\ [](\A p \in PostIds : share_count[p] = sharesDone[p])
  /\ [][\A t \in Callers, ret \in Returned : increment_post_share(t, ret) =>
          LET p == calling[t].post IN
          IF raised' = "none"
          THEN /\ share_count'[p] = share_count[p] + 1
               /\ ret = share_count'[p]
          ELSE /\ p \notin PostIds
               /\ UNCHANGED <<share_count, comment_count, view_count,
                              like_count, bookmark_count>>]_vars

\* one of two shares that both began at 0 has succeeded, the other is pending
C34_Witness ==
  /\ calling[2].fn = "share" /\ calling[2].post = 1 /\ calling[2].seen = 0
  /\ share_count[1] = 1 /\ sharesDone[1] = 1
  /\ raised = "none"

\* C35: after any interleaving of create_post_comment calls a post's
\* comment_count equals the number of its comments, and a call that fails
\* (unknown post or author) leaves the comments and the counter unchanged.
C35_CommentsAtomic ==
  /\ [](\A p \in PostIds : comment_count[p] = comments[p])
  /\ [][\A t \in Callers, authorFound \in BOOLEAN :
          create_post_comment(t, authorFound) /\ raised' # "none" =>
          UNCHANGED <<comments, comment_count>>]_vars

\* a comment for an unknown author failed after another comment, begun at the
\* same time, was created
C35_Witness ==
  /\ comments[1] = 1 /\ comment_count[1] = 1
  /\ raised = "author_not_found"
  /\ started = 2
  /\ \A t \in Callers : calling[t] = IdleCall


\* --------------------------------------------------- ensureProfile
\* for (let index = 0; index < 5; index += 1)
MAX_INSERT_ATTEMPTS == 5

\* the authenticated user both requests act for, and the handle derived from
\* the user's e-mail
ProfileUser == "A"
usernameBase == "ann"

\* `${usernameBase.slice(0, 18)}_${randomUUID().slice(0, 4)}`
Suffixed == {"ann_1", "ann_2"}

\* rows of other users the table may hold, and this user's earlier row
OtherProfiles == {[id |-> "o1", username |-> "ann"],
                  [id |-> "o2", username |-> "ann_1"]}
OwnProfile == [id |-> ProfileUser, username |-> "ann_0"]

\* fetchProfile: .eq("id", userId).maybeSingle()
fetchProfile(userId) ==
  IF \E row \in profiles : row.id = userId
  THEN CHOOSE row \in profiles : row.id = userId
  ELSE NoProfile

\* Faulty variant: only the username is unique.
UniqueViolation_username(row) ==
  \E held \in profiles : held.username = row.username

\* id uuid primary key, username text not null unique: error 23505
UniqueViolation(row) ==
  \E held \in profiles : held.id = row.id \/ held.username = row.username

\* the first await: the existing profile is returned as it is
EnsureFetch(r) ==
  LET existing == fetchProfile(ProfileUser) IN
  /\ ensuring[r].pc = "idle"
  /\ ensuring' = [ensuring EXCEPT ![r] =
       IF existing # NoProfile
       THEN [@ EXCEPT !.pc = "returned", !.reads = 1, !.result = existing]
       ELSE [@ EXCEPT !.pc = "insert", !.reads = 1]]
  /\ UNCHANGED <<profiles, play>>
  /\ UNCHANGED <<toggleVars, videoVars, pageVars, tallyVars>>

\* one turn of the loop: insert, return the row, retry on 23505, throw on any
\* other error
EnsureInsert(r, suffixed, otherError) ==
  LET e == ensuring[r]
      username == IF e.index = 0 THEN usernameBase ELSE suffixed
      row == [id |-> ProfileUser, username |-> username]
  IN
  /\ e.pc = "insert"
  /\ e.index < MAX_INSERT_ATTEMPTS
  /\ IF otherError
     THEN /\ ensuring' = [ensuring EXCEPT ![r] =
                [@ EXCEPT !.pc = "thrown", !.inserts = @ + 1,
                          !.code = "other"]]
          /\ UNCHANGED profiles
     ELSE IF UniqueViolation(row)
     THEN /\ ensuring' = [ensuring EXCEPT ![r] =
                [@ EXCEPT !.pc = IF e.index + 1 < MAX_INSERT_ATTEMPTS
                                 THEN "insert" ELSE "reread",
                          !.index = @ + 1, !.inserts = @ + 1,
                          !.raced = @ \/ fetchProfile(ProfileUser) # NoProfile,
                          !.code = "23505"]]
          /\ UNCHANGED profiles
     ELSE /\ profiles' = profiles \cup {row}
          /\ ensuring' = [ensuring EXCEPT ![r] =
                [@ EXCEPT !.pc = "returned", !.inserts = @ + 1,
                          !.code = "none", !.result = row]]
  /\ UNCHANGED play
  /\ UNCHANGED <<toggleVars, videoVars, pageVars, tallyVars>>

\* after the loop: const profile = await fetchProfile(userId)
EnsureReread(r) ==
  LET profile == fetchProfile(ProfileUser) IN
  /\ ensuring[r].pc = "reread"
  /\ ensuring' = [ensuring EXCEPT ![r] =
       IF profile # NoProfile
       THEN [@ EXCEPT !.pc = "returned", !.reads = @ + 1, !.result = profile]
       ELSE [@ EXCEPT !.pc = "thrown", !.reads = @ + 1]]
  /\ UNCHANGED <<profiles, play>>
  /\ UNCHANGED <<toggleVars, videoVars, pageVars, tallyVars>>

ensureProfile(r) ==
  \/ EnsureFetch(r)
  \/ \E suffixed \in Suffixed, otherError \in BOOLEAN :
       EnsureInsert(r, suffixed, otherError)
  \/ EnsureReread(r)

InitProfile ==
  /\ InitStore
  /\ profiles \in SUBSET (OtherProfiles \cup {OwnProfile})
  /\ ensuring = [r \in ReqIds |-> IdleEnsure]
  /\ play = IdlePlay

NextProfile == \E r \in ReqIds : ensureProfile(r)

SpecProfile == InitProfile /\ [][NextProfile]_vars

\* every request that can take a step eventually takes one
SpecProfileLive == SpecProfile /\ \A r \in ReqIds : WF_vars(ensureProfile(r))

Ended(r) == ensuring[r].pc \in {"returned", "thrown"}

OwnRows == {row \in profiles : row.id = ProfileUser}

\* C36: ensureProfile always terminates; it returns the existing profile
\* unchanged when one exists, otherwise makes at most 5 insert attempts,
\* retrying only after a unique violation and throwing at once on any other
\* error, then re-reads once; when two requests of one new user race, the user
\* has at most one profile row and every request that lost the insert to the
\* other returns that row, as does the request that inserted it.
C36_EnsureProfile ==
  /\ <>[](\A r \in ReqIds : Ended(r))
  /\ [](Cardinality(OwnRows) <= 1)
  /\ [](\A r \in ReqIds :
          /\ ensuring[r].inserts <= MAX_INSERT_ATTEMPTS
          /\ ensuring[r].reads <= 2
          /\ ensuring[r].pc = "returned" => OwnRows = {ensuring[r].result}
          /\ (ensuring[r].pc = "thrown" /\ ensuring[r].raced)
               => ensuring[r].code = "other")
  /\ [][\A r \in ReqIds :
          /\ (EnsureFetch(r) /\ OwnRows # {}) =>
               /\ ensuring'[r].pc = "returned"
               /\ ensuring'[r].result \in OwnRows
               /\ UNCHANGED profiles
          /\ (ensuring[r].pc = "insert" /\ ensuring'[r].pc \in {"insert", "reread"}
              /\ ensuring'[r] # ensuring[r]) => ensuring'[r].code = "23505"
          /\ (ensuring[r].pc = "insert" /\ ensuring'[r].code = "other")
               => ensuring'[r].pc = "thrown"]_vars

\* both requests found no row; one inserted it, the other met five unique
\* violations, read again and returned the same row
C36_Witness ==
  /\ \A r \in ReqIds : ensuring[r].pc = "returned" /\ ensuring[r].reads >= 1
  /\ \E r \in ReqIds : ensuring[r].inserts = MAX_INSERT_ATTEMPTS
                       /\ ensuring[r].reads = 2 /\ ensuring[r].raced
  /\ \E r \in ReqIds : ensuring[r].code = "none" /\ ensuring[r].inserts >= 1
  /\ OwnProfile \notin profiles


\* --------------------------------------------------- playback URLs
\* setExpirationTime(now + 60 * 10)
TOKEN_LIFETIME_SECONDS == 600

\* config.cloudflareSigningKeyId, config.cloudflareSigningKeySecret: not set,
\* set to the empty string, or set
Settings == {"unset", "", "set"}
Falsy(setting) == setting \in {"unset", ""}

Clock == {1000, 2000}          \* Math.floor(Date.now() / 1000)

NoToken == [type |-> "null"]
NotPassed == [type |-> "undefined"]

\* a URL: its host ("" when it is relative), its file, its token parameter
NoUrl == [host |-> "none", uid |-> NoUid, file |-> "", token |-> NoToken]
Given(host, uid, file) ==
  [host |-> host, uid |-> uid, file |-> file, token |-> NoToken]

buildPublicPlaybackHlsUrl(uid) == Given("delivery", uid, "manifest/video.m3u8")
buildPublicPlaybackDashUrl(uid) == Given("delivery", uid, "manifest/video.mpd")
buildPublicThumbnailUrl(uid) == Given("delivery", uid, "thumbnails/thumbnail.jpg")

toAbsoluteDeliveryUrl(url) ==
  IF url.host # "" THEN url ELSE [url EXCEPT !.host = "delivery"]

\* if (!signedToken) return url; parsed.searchParams.set("token", signedToken)
appendSignedToken(url, signedToken) ==
  IF signedToken = NoToken THEN url ELSE [url EXCEPT !.token = signedToken]

\* a ?? b
OrElse(a, missing, b) == IF a = missing THEN b ELSE a

\* Faulty variant: only the manifest is signed.
resolvePlaybackUrls_hlsonly(uid, playback, thumbnail, signedToken) ==
  [hls |-> appendSignedToken(
             toAbsoluteDeliveryUrl(
               OrElse(playback.hls, NoUrl, buildPublicPlaybackHlsUrl(uid))),
             OrElse(signedToken, NotPassed, NoToken)),
   dash |-> toAbsoluteDeliveryUrl(
              OrElse(playback.dash, NoUrl, buildPublicPlaybackDashUrl(uid))),
   thumbnail |-> toAbsoluteDeliveryUrl(
                   OrElse(thumbnail, NoUrl, buildPublicThumbnailUrl(uid)))]

resolvePlaybackUrls(uid, playback, thumbnail, signedToken) ==
  [hls |-> appendSignedToken(
             toAbsoluteDeliveryUrl(
               OrElse(playback.hls, NoUrl, buildPublicPlaybackHlsUrl(uid))),
             OrElse(signedToken, NotPassed, NoToken)),
   dash |-> appendSignedToken(
              toAbsoluteDeliveryUrl(
                OrElse(playback.dash, NoUrl, buildPublicPlaybackDashUrl(uid))),
              OrElse(signedToken, NotPassed, NoToken)),
   thumbnail |-> appendSignedToken(
                   toAbsoluteDeliveryUrl(
                     OrElse(thumbnail, NoUrl, buildPublicThumbnailUrl(uid))),
                   OrElse(signedToken, NotPassed, NoToken))]

\* new SignJWT({ sub: uid }) ... .sign(secret), or null without a key pair
buildSignedPlaybackToken(keyId, keySecret, uid, now) ==
  IF Falsy(keyId) \/ Falsy(keySecret)
  THEN NoToken
  ELSE [type |-> "jwt", sub |-> uid, iat |-> now,
        exp |-> now + TOKEN_LIFETIME_SECONDS, kid |-> keyId,
        key |-> keySecret]

Resolved(site, signedToken, urls) ==
  play' = [play EXCEPT !.pc = "done", !.site = site,
                       !.signedToken = signedToken, !.urls = urls]

\* GET /media/video/:uid/status of the compiled build
getCloudflareVideoDelivery ==
  LET signedToken == buildSignedPlaybackToken(play.keyId, play.keySecret,
                                              play.uid, play.now)
  IN
  /\ play.pc = "ready"
  /\ Resolved("status", signedToken,
              resolvePlaybackUrls(play.uid, play.video.playback,
                                  play.video.thumbnail, signedToken))
  /\ UNCHANGED <<profiles, ensuring>>
  /\ UNCHANGED <<toggleVars, videoVars, pageVars, tallyVars>>

\* the feed: one token and one set of URLs for every video row
buildVideoPlaybackMap ==
  LET signedToken == buildSignedPlaybackToken(play.keyId, play.keySecret,
                                              play.uid, play.now)
  IN
  /\ play.pc = "ready"
  /\ Resolved("feed", signedToken,
              resolvePlaybackUrls(play.uid, [hls |-> NoUrl, dash |-> NoUrl],
                                  NoUrl, signedToken))
  /\ UNCHANGED <<profiles, ensuring>>
  /\ UNCHANGED <<toggleVars, videoVars, pageVars, tallyVars>>

\* POST /posts: the URLs stored as media_url and thumbnail_url; no token is
\* passed
CreatePostUrls ==
  /\ play.pc = "ready"
  /\ Resolved("post", NotPassed,
              resolvePlaybackUrls(play.uid, play.video.playback,
                                  play.video.thumbnail, NotPassed))
  /\ UNCHANGED <<profiles, ensuring>>
  /\ UNCHANGED <<toggleVars, videoVars, pageVars, tallyVars>>

\* what the provider may report for a video: nothing, a relative URL, or
\* an absolute one
Reported(file) == {NoUrl, Given("", "v1", file), Given("customer", "v1", file)}

InitPlayback ==
  /\ InitStore
  /\ profiles = {}
  /\ ensuring = [r \in ReqIds |-> IdleEnsure]
  /\ \E keyId \in Settings, keySecret \in Settings, now \in Clock,
        hls \in Reported("manifest/video.m3u8"),
        dash \in Reported("manifest/video.mpd") \ {Given("", "v1", "manifest/video.mpd")},
        thumbnail \in {NoUrl, Given("customer", "v1", "thumbnails/thumbnail.jpg")} :
       play = [pc |-> "ready", site |-> "none", keyId |-> keyId,
               keySecret |-> keySecret, uid |-> "v1", now |-> now,
               video |-> [playback |-> [hls |-> hls, dash |-> dash],
                          thumbnail |-> thumbnail],
               signedToken |-> NotPassed,
               urls |-> [hls |-> NoUrl, dash |-> NoUrl, thumbnail |-> NoUrl]]

NextPlayback ==
  \/ getCloudflareVideoDelivery
  \/ buildVideoPlaybackMap
  \/ CreatePostUrls

SpecPlayback == InitPlayback /\ [][NextPlayback]_vars

KeyPair == ~Falsy(play.keyId) /\ ~Falsy(play.keySecret)

\* the token a key pair signs for this video now
FreshToken ==
  [type |-> "jwt", sub |-> play.uid, iat |-> play.now,
   exp |-> play.now + 600, kid |-> play.keyId, key |-> play.keySecret]

AllCarry(token) ==
  /\ play.urls.hls.token = token
  /\ play.urls.dash.token = token
  /\ play.urls.thumbnail.token = token

\* C33 as stated: whenever URLs are resolved, with a signing key id and secret
\* both configured each of the three URLs carries the same token (subject =
\* uid, expiry = issue time + 10 minutes), and otherwise the signed token is
\* null and no URL carries a token.
C33_SignsByConfiguration ==
  play.pc = "done" =>
    IF KeyPair
    THEN AllCarry(FreshToken)
    ELSE play.signedToken \in {NoToken, NotPassed} /\ AllCarry(NoToken)

\* C33 as the code has it: the URLs are signed with the token the caller
\* passes. Where the caller passes the token of buildSignedPlaybackToken, a
\* configured key pair puts the same token (subject = uid, expiry = issue
\* time + 10 minutes) on all three URLs and a missing id or secret makes the
\* token null and leaves all three without one; where the caller passes no
\* token (POST /posts), all three are without one.
C33_SignsWithGivenToken ==
  play.pc = "done" =>
    /\ \/ AllCarry(NoToken)
       \/ AllCarry(FreshToken)
    /\ IF play.site = "post"
       THEN AllCarry(NoToken)
       ELSE IF KeyPair
       THEN play.signedToken = FreshToken /\ AllCarry(FreshToken)
       ELSE play.signedToken = NoToken /\ AllCarry(NoToken)
    /\ \A u \in {play.urls.hls, play.urls.dash, play.urls.thumbnail} :
         u.host \in {"delivery", "customer"} /\ u.uid = play.uid

\* the status route signed a relative manifest URL and two defaults
C33_Witness ==
  /\ play.pc = "done" /\ play.site = "status" /\ KeyPair
  /\ play.video.playback.hls.host = ""
  /\ play.video.playback.dash = NoUrl
  /\ play.urls.hls.host = "delivery"
  /\ play.urls.dash.token.exp = play.now + 600
  /\ play.urls.thumbnail.token.sub = "v1"

============================================================================
